---- MODULE Spec2Model ----
(***************************************************************************)
(* Ragelang: the falling-character preprocessor, the lexer, the parser and *)
(* the tree-walking interpreter, as state machines.                        *)
(*                                                                         *)
(* Text is a sequence of one-character strings.  Rows and columns of the   *)
(* grid are numbered from 1 (the source numbers them from 0), so the       *)
(* source's "no foundation" value -1 is NoFoundation == 0 and the "fell    *)
(* out" value -1 of findLandingRow is FellOut == 0.                        *)
(***************************************************************************)
EXTENDS Integers, Sequences, FiniteSets, TLC

VARIABLES
    pc,             \* position of the driver that calls the operations below
    source,         \* the text handed to new FallingProcessor(source)
    grid,           \* FallingProcessor.grid
    foundationRow,  \* FallingProcessor.foundationRow
    output,         \* the text returned by the last process()
    prevOutput,     \* the text returned by the process() before that
    round,          \* 1: processing the raw source, 2: processing its own output
    unsupported,    \* the positions returned by the last getUnsupportedPositions()
    tokens,         \* the tokens returned by Lexer.tokenize()
    ast,            \* the body of the Program handed to Interpreter.run()
    interpreter,    \* the fields of the Interpreter
    thrown,         \* what the run threw to its caller; NoThrow if nothing
    ragelang        \* the fields of the Ragelang object and its scene changes in flight

fallVars == <<source, grid, foundationRow, output, prevOutput, round, unsupported>>
runVars == <<tokens, ast, interpreter, thrown>>

vars == <<pc, source, grid, foundationRow, output, prevOutput, round, unsupported,
          tokens, ast, interpreter, thrown, ragelang>>

(***************************************************************************)
(* Bounds                                                                  *)
(***************************************************************************)
MaxLen == 6     \* longest raw source text of the preprocessor runs
MaxLines == 2   \* most lines of a text of the pipeline runs
MaxStart == 2   \* largest start value of a counter
MaxText == 5        \* characters of a text handed to the lexer alone
MaxFrames == 2      \* frames of the game loop in one run
MaxTime == 2        \* the clock of the host, in seconds
MaxLoads == 2       \* scene changes requested in one run

NoFoundation == 0
FellOut == 0
\* no call of getUnsupportedPositions() has returned yet
NoPositions == {<<0, 0>>}

Blank == " "
Alphabet == {" ", "#", "x", "\t", "\"", "\n"}

\* the characters the regular expression class \s matches, among Alphabet
Whitespace == {" ", "\t", "\n"}

Max(S) == CHOOSE m \in S : \A n \in S : n <= m
Min(S) == CHOOSE m \in S : \A n \in S : m <= n

(***************************************************************************)
(* FallingProcessor                                                        *)
(***************************************************************************)
\* String.prototype.split("\n")
RECURSIVE split(_)
split(s) ==
    IF \A i \in 1..Len(s) : s[i] # "\n" THEN <<s>>
    ELSE LET i == Min({k \in 1..Len(s) : s[k] = "\n"})
         IN  <<SubSeq(s, 1, i - 1)>> \o split(SubSeq(s, i + 1, Len(s)))

\* Array.prototype.join("\n")
RECURSIVE join(_)
join(lines) ==
    IF Len(lines) = 0 THEN <<>>
    ELSE IF Len(lines) = 1 THEN lines[1]
    ELSE lines[1] \o <<"\n">> \o join(Tail(lines))

\* the constructor's grid: one row per line, padded with blanks to the width
buildGrid(src) ==
    LET lines == split(src)
        width == Max({Len(lines[r]) : r \in 1..Len(lines)} \cup {0})
    IN  [row \in 1..Len(lines) |->
            [col \in 1..width |->
                IF col <= Len(lines[row]) THEN lines[row][col] ELSE Blank]]

Height(g) == Len(g)
Width(g) == IF Len(g) = 0 THEN 0 ELSE Len(g[1])

\* inString when the scan of a row reaches col: each quote before it toggled
inStringAt(g, row, col) ==
    Cardinality({c \in 1..(col - 1) : g[row][c] = "\""}) % 2 = 1

isFoundationRow(g, row) ==
    \E col \in 1..Width(g) : g[row][col] = "#" /\ ~inStringAt(g, row, col)

findFoundation(g) ==
    LET rows == {row \in 1..Height(g) : isFoundationRow(g, row)}
    IN  IF rows = {} THEN NoFoundation ELSE Max(rows)

RECURSIVE isSupported(_, _, _, _, _)

\* a support rule that holds up every character above the foundation row
isSupportedAnywhereAbove(g, fr, row, col, checkingStack) ==
    g[row][col] # Blank /\ fr # NoFoundation /\ (row < fr \/ g[row][col] = "#")

\* isSupported with its checkingStack; the supportCache only saves work,
\* because process() clears it whenever the grid changes
isSupportedInternal(g, fr, row, col, checkingStack) ==
    IF g[row][col] = Blank THEN FALSE
    ELSE IF row = fr /\ g[row][col] = "#" THEN TRUE
    ELSE IF row >= fr /\ fr # NoFoundation THEN FALSE
    ELSE IF fr = NoFoundation THEN FALSE
    ELSE IF row + 1 > Height(g) THEN FALSE
    ELSE \E checkCol \in {col - 1, col, col + 1} :
            /\ checkCol >= 1
            /\ checkCol <= Width(g)
            /\ g[row + 1][checkCol] # Blank
            /\ isSupported(g, fr, row + 1, checkCol, checkingStack)

\* isSupported without the test of the checkingStack
isSupportedUnguarded(g, fr, row, col, checkingStack) ==
    isSupportedInternal(g, fr, row, col, checkingStack \cup {<<row, col>>})

isSupported(g, fr, row, col, checkingStack) ==
    IF <<row, col>> \in checkingStack THEN FALSE
    ELSE isSupportedInternal(g, fr, row, col, checkingStack \cup {<<row, col>>})

\* the largest size the checkingStack reaches while isSupported(row, col)
\* runs, when no call returns early (the loop over the three cells below
\* stops at the first supported one, so the real stack is no larger)
RECURSIVE checkingDepth(_, _, _, _, _)
checkingDepth(g, fr, row, col, checkingStack) ==
    IF <<row, col>> \in checkingStack THEN Cardinality(checkingStack)
    ELSE IF \/ g[row][col] = Blank
            \/ row >= fr
            \/ fr = NoFoundation
            \/ row + 1 > Height(g)
         THEN Cardinality(checkingStack) + 1
    ELSE Max({Cardinality(checkingStack) + 1} \cup
             {checkingDepth(g, fr, row + 1, checkCol, checkingStack \cup {<<row, col>>}) :
                checkCol \in {c \in {col - 1, col, col + 1} :
                    c >= 1 /\ c <= Width(g) /\ g[row + 1][c] # Blank}})

\* a landing on the cell that is hit, not on the one above it
findLandingRowOnto(g, startRow, col) ==
    LET hits == {row \in (startRow + 1)..Height(g) : g[row][col] # Blank}
    IN  IF hits = {} THEN FellOut ELSE Min(hits)

findLandingRow(g, startRow, col) ==
    LET hits == {row \in (startRow + 1)..Height(g) : g[row][col] # Blank}
    IN  IF hits = {} THEN FellOut ELSE Min(hits) - 1

\* the cells of one row that process() collects in toFall
toFallCols(g, fr, row) ==
    {col \in 1..Width(g) : g[row][col] # Blank /\ ~isSupported(g, fr, row, col, {})}

\* "place them at their landing positions", in the order of toFall
RECURSIVE placeFallen(_, _, _, _)
placeFallen(g, cleared, row, cols) ==
    IF cols = {} THEN cleared
    ELSE LET col == Min(cols)
             landingRow == findLandingRow(cleared, row, col)
             placed == IF landingRow >= 1 /\ landingRow <= Height(g)
                       THEN [cleared EXCEPT ![landingRow][col] = g[row][col]]
                       ELSE cleared
         IN  placeFallen(g, placed, row, cols \ {col})

\* the body of the row loop of process(): one line falls
fallRow(g, fr, row) ==
    LET cols == toFallCols(g, fr, row)
        cleared == [g EXCEPT ![row] = [col \in 1..Width(g) |->
                        IF col \in cols THEN Blank ELSE g[row][col]]]
    IN  IF cols = {} THEN [grid |-> g, changed |-> FALSE]
        ELSE [grid |-> placeFallen(g, cleared, row, cols), changed |-> TRUE]

\* one bottom-to-top sweep: rows fr-1 down to 1
RECURSIVE sweepFrom(_, _, _)
sweepFrom(g, fr, row) ==
    IF row < 1 THEN [grid |-> g, changed |-> FALSE]
    ELSE LET here == fallRow(g, fr, row)
             rest == sweepFrom(here.grid, fr, row - 1)
         IN  [grid |-> rest.grid, changed |-> here.changed \/ rest.changed]

sweep(g, fr) == sweepFrom(g, fr, fr - 1)

maxIterations(g) == Height(g) * Width(g)

\* the loop of process() with the comparison against the safety limit turned
\* round, so that the body never runs
simulateNeverRuns(g, fr, changed, iterations) ==
    IF changed /\ iterations > maxIterations(g)
    THEN sweep(g, fr).grid
    ELSE g

\* while (changed && iterations < maxIterations)
RECURSIVE simulate(_, _, _, _)
simulate(g, fr, changed, iterations) ==
    IF changed /\ iterations < maxIterations(g)
    THEN LET s == sweep(g, fr) IN simulate(s.grid, fr, s.changed, iterations + 1)
    ELSE g

\* row.join("").replace(/\s+$/, "")
RECURSIVE trimEnd(_)
trimEnd(row) ==
    IF Len(row) > 0 /\ row[Len(row)] \in Whitespace
    THEN trimEnd(SubSeq(row, 1, Len(row) - 1))
    ELSE row

gridToString(g) == join([row \in 1..Height(g) |-> trimEnd(g[row])])

\* getGrid(): a copy of the grid, row by row
getGrid(g) == [row \in 1..Height(g) |-> [col \in 1..Width(g) |-> g[row][col]]]

\* a query that lets the characters fall before it reports
getUnsupportedPositionsFallen(g, fr) ==
    LET fallen == IF fr = NoFoundation THEN g ELSE simulate(g, fr, TRUE, 0)
    IN  [grid |-> fallen,
         unsupported |-> {<<row, col>> \in (1..Height(g)) \X (1..Width(g)) :
                            g[row][col] # fallen[row][col]}]

\* getUnsupportedPositions(): the grid it leaves in the object, and the
\* positions it returns (pushed row by row, left to right; kept as a set)
getUnsupportedPositions(g, fr) ==
    [grid |-> g,
     unsupported |->
        IF fr = NoFoundation
        THEN {<<row, col>> \in (1..Height(g)) \X (1..Width(g)) : g[row][col] # Blank}
        ELSE {<<row, col>> \in (1..(fr - 1)) \X (1..Width(g)) :
                g[row][col] # Blank /\ ~isSupported(g, fr, row, col, {})}]

\* the grid process() leaves in the object
processGrid(g, fr) == IF fr = NoFoundation THEN g ELSE simulate(g, fr, TRUE, 0)

\* the text process() returns
processText(g, fr) == IF fr = NoFoundation THEN <<>> ELSE gridToString(processGrid(g, fr))

(***************************************************************************)
(* Lexer                                                                   *)
(*                                                                         *)
(* current counts the characters consumed, as in the source; the character *)
(* at index current of the source is src[current + 1] here.               *)
(***************************************************************************)
\* what peek() and peekNext() return at the end of the text
NUL == "\\0"

Digits == {"0", "1", "2", "3", "4", "5", "6", "7", "8", "9"}
Letters == {"a", "b", "c", "d", "e", "f", "g", "h", "i", "j", "k", "l", "m",
            "n", "o", "p", "q", "r", "s", "t", "u", "v", "w", "x", "y", "z",
            "A", "B", "C", "D", "E", "F", "G", "H", "I", "J", "K", "L", "M",
            "N", "O", "P", "Q", "R", "S", "T", "U", "V", "W", "X", "Y", "Z",
            "_"}
HexDigits == Digits \cup {"a", "b", "c", "d", "e", "f", "A", "B", "C", "D", "E", "F"}

isDigit(c) == c \in Digits
isAlpha(c) == c \in Letters
isAlphaNumeric(c) == isAlpha(c) \/ isDigit(c)
isHexDigit(c) == c \in HexDigits

KEYWORDS == [draw |-> "DRAW", update |-> "UPDATE", fun |-> "FUN", return |-> "RETURN",
             if |-> "IF", else |-> "ELSE", loop |-> "LOOP", break |-> "BREAK",
             true |-> "TRUE", false |-> "FALSE", prototype |-> "PROTOTYPE",
             enum |-> "ENUM", match |-> "MATCH", and |-> "AND", or |-> "OR"]

\* runtime values, tagged by what typeof and __type tell apart
Num(n) == [t |-> "number", n |-> n]
NaN == [t |-> "number", nan |-> TRUE]
Str(s) == [t |-> "string", s |-> s]
Bool(b) == [t |-> "boolean", b |-> b]
Null == [t |-> "null"]
Undefined == [t |-> "undefined"]

\* the characters of a text as one string
RECURSIVE toStr(_)
toStr(chars) == IF Len(chars) = 0 THEN "" ELSE chars[1] \o toStr(Tail(chars))

\* source.substring(from, to)
substring(src, from, to) == SubSeq(src, from + 1, to)

isAtEndOf(src, current) == current >= Len(src)
peek(src, current) == IF isAtEndOf(src, current) THEN NUL ELSE src[current + 1]
peekNext(src, current) == IF current + 1 >= Len(src) THEN NUL ELSE src[current + 2]

\* the position reached by "while (P(peek())) advance()" for P = membership of S
skipWhileIn(src, current, S) ==
    LET stops == {k \in (current + 1)..Len(src) : src[k] \notin S}
    IN  IF stops = {} THEN Len(src) ELSE Min(stops) - 1

\* the position reached by "while (peek() !== stop && !isAtEnd()) advance()"
skipUntil(src, current, stop) ==
    LET stops == {k \in (current + 1)..Len(src) : src[k] = stop}
    IN  IF stops = {} THEN Len(src) ELSE Min(stops) - 1

DigitValue(c) ==
    CASE c = "0" -> 0 [] c = "1" -> 1 [] c = "2" -> 2 [] c = "3" -> 3
      [] c = "4" -> 4 [] c = "5" -> 5 [] c = "6" -> 6 [] c = "7" -> 7
      [] c = "8" -> 8 [] c = "9" -> 9
      [] c \in {"a", "A"} -> 10 [] c \in {"b", "B"} -> 11 [] c \in {"c", "C"} -> 12
      [] c \in {"d", "D"} -> 13 [] c \in {"e", "E"} -> 14 [] c \in {"f", "F"} -> 15

\* parseInt(digits, radix); NaN when there is no digit
RECURSIVE radixValue(_, _, _)
radixValue(digits, radix, acc) ==
    IF Len(digits) = 0 THEN acc
    ELSE radixValue(Tail(digits), radix, acc * radix + DigitValue(digits[1]))

parseInt(digits, radix) ==
    IF Len(digits) = 0 THEN NaN ELSE Num(radixValue(digits, radix, 0))

\* parseFloat(lexeme): computed for a lexeme of decimal digits; a lexeme with
\* a fraction or an exponent keeps its text
parseFloat(lexeme) ==
    IF \A i \in 1..Len(lexeme) : isDigit(lexeme[i])
    THEN parseInt(lexeme, 10)
    ELSE [t |-> "number", text |-> toStr(lexeme)]

Token(type, lexeme, literal, line, column) ==
    [type |-> type, lexeme |-> lexeme, literal |-> literal, line |-> line, column |-> column]

\* the lexer after consuming up to position to within one line
advanceTo(lx, to) == [lx EXCEPT !.column = lx.column + (to - lx.current), !.current = to]

\* this.tokens.push(...); starts keeps this.start of each token pushed, the
\* offset of its first character, for the properties below
pushToken(lx, tok) ==
    [lx EXCEPT !.tokens = Append(lx.tokens, tok), !.starts = Append(lx.starts, lx.start)]

\* addToken(type), called when the lexer stands behind the lexeme
addToken(src, lx, start, type) ==
    LET text == substring(src, start, lx.current)
    IN  pushToken(lx, Token(type, toStr(text), Null, lx.line, lx.column - Len(text)))

\* the operators of one character, and those that a second character extends
SingleCharTokens == [c \in {"(", ")", "{", "}", "[", "]", ",", ".", ";", ":", "~"} |->
    CASE c = "(" -> "LPAREN" [] c = ")" -> "RPAREN" [] c = "{" -> "LBRACE"
      [] c = "}" -> "RBRACE" [] c = "[" -> "LBRACKET" [] c = "]" -> "RBRACKET"
      [] c = "," -> "COMMA" [] c = "." -> "DOT" [] c = ";" -> "SEMICOLON"
      [] c = ":" -> "COLON" [] c = "~" -> "TILDE"]

OperatorChars == {"+", "-", "*", "%", "^", "&", "|", "!", "=", "<", ">"}

\* for an operator character: the second characters tried in order with the
\* token each gives, and the token of the character alone
OperatorTable(c) ==
    CASE c = "+" -> [two |-> << <<"+", "PLUS_PLUS">>, <<"=", "PLUS_EQUAL">> >>, one |-> "PLUS"]
      [] c = "-" -> [two |-> << <<"-", "MINUS_MINUS">>, <<"=", "MINUS_EQUAL">> >>, one |-> "MINUS"]
      [] c = "*" -> [two |-> << <<"*", "STAR_STAR">>, <<"=", "STAR_EQUAL">> >>, one |-> "STAR"]
      [] c = "%" -> [two |-> << <<"=", "PERCENT_EQUAL">> >>, one |-> "PERCENT"]
      [] c = "^" -> [two |-> << <<"=", "CARET_EQUAL">> >>, one |-> "CARET"]
      [] c = "&" -> [two |-> << <<"&", "AMPERSAND_AMPERSAND">>, <<"=", "AMPERSAND_EQUAL">> >>, one |-> "AMPERSAND"]
      [] c = "|" -> [two |-> << <<"|", "PIPE_PIPE">>, <<"=", "PIPE_EQUAL">> >>, one |-> "PIPE"]
      [] c = "!" -> [two |-> << <<"=", "BANG_EQUAL">> >>, one |-> "BANG"]
      [] c = "=" -> [two |-> << <<"=", "EQUAL_EQUAL">>, <<">", "FAT_ARROW">> >>, one |-> "EQUAL"]
      [] c = "<" -> [two |-> << <<"<", "LESS_LESS">>, <<"=", "LESS_EQUAL">> >>, one |-> "LESS"]
      [] c = ">" -> [two |-> << <<">", "GREATER_GREATER">>, <<"=", "GREATER_EQUAL">> >>, one |-> "GREATER"]

operatorToken(src, lx, start, c) ==
    LET tab == OperatorTable(c)
        hits == {i \in 1..Len(tab.two) : peek(src, lx.current) = tab.two[i][1]}
    IN  IF hits = {} THEN addToken(src, lx, start, tab.one)
        ELSE addToken(src, advanceTo(lx, lx.current + 1), start, tab.two[Min(hits)][2])

lineComment(src, lx, start) ==
    LET startColumn == lx.column - 2
        after == advanceTo(lx, skipUntil(src, lx.current, "\n"))
    IN  pushToken(after, Token("COMMENT", toStr(substring(src, start, after.current)),
                               Null, after.line, startColumn))

foundation(lx) ==
    pushToken(lx, Token("FOUNDATION", "#", Null, lx.line, lx.column - 1))

\* string(): line and column as the loop leaves them; an Error when the
\* closing quote is missing
string(src, lx, start) ==
    LET startColumn == lx.column - 1
        end == skipUntil(src, lx.current, "\"")
        newlines == {k \in (lx.current + 1)..end : src[k] = "\n"}
        line == lx.line + Cardinality(newlines)
        column == IF newlines = {} THEN lx.column + (end - lx.current)
                  ELSE 1 + (end - Max(newlines)) + 1
        atQuote == [lx EXCEPT !.current = end, !.line = line, !.column = column]
        closed == advanceTo(atQuote, end + 1)
    IN  IF isAtEndOf(src, end)
        THEN [atQuote EXCEPT !.error = <<"Unterminated string at line ", line>>]
        ELSE pushToken(closed,
                Token("STRING", toStr(substring(src, start, closed.current)),
                      Str(toStr(substring(src, start + 1, closed.current - 1))),
                      closed.line, startColumn))

number(src, lx, start) ==
    LET startColumn == lx.column - 1
        firstChar == src[start + 1]
        hexEnd == skipWhileIn(src, lx.current + 1, HexDigits)
        binEnd == skipWhileIn(src, lx.current + 1, {"0", "1"})
        intEnd == skipWhileIn(src, lx.current, Digits)
        fracEnd == IF peek(src, intEnd) = "." /\ isDigit(peekNext(src, intEnd))
                   THEN skipWhileIn(src, intEnd + 1, Digits)
                   ELSE intEnd
        signEnd == IF peek(src, fracEnd + 1) \in {"+", "-"} THEN fracEnd + 2 ELSE fracEnd + 1
        expEnd == IF peek(src, fracEnd) \in {"e", "E"}
                  THEN skipWhileIn(src, signEnd, Digits)
                  ELSE fracEnd
        numberToken(to, literal) ==
            pushToken(advanceTo(lx, to),
                      Token("NUMBER", toStr(substring(src, start, to)), literal,
                            lx.line, startColumn))
    IN  IF firstChar = "0" /\ peek(src, lx.current) \in {"x", "X"}
        THEN numberToken(hexEnd, parseInt(substring(src, start + 2, hexEnd), 16))
        ELSE IF firstChar = "0" /\ peek(src, lx.current) \in {"b", "B"}
        THEN numberToken(binEnd, parseInt(substring(src, start + 2, binEnd), 2))
        ELSE numberToken(expEnd, parseFloat(substring(src, start, expEnd)))

identifier(src, lx, start) ==
    LET startColumn == lx.column - 1
        end == skipWhileIn(src, lx.current, Letters \cup Digits)
        text == toStr(substring(src, start, end))
        type == IF text \in DOMAIN KEYWORDS THEN KEYWORDS[text] ELSE "IDENTIFIER"
        literal == IF type = "TRUE" THEN Bool(TRUE)
                   ELSE IF type = "FALSE" THEN Bool(FALSE) ELSE Null
        after == advanceTo(lx, end)
    IN  IF text = "_"
        THEN pushToken(after, Token("UNDERSCORE", text, Null, lx.line, startColumn))
        ELSE pushToken(after, Token(type, text, literal, lx.line, startColumn))

scanToken(src, lx0) ==
    LET start == lx0.current
        c == src[start + 1]
        lx == advanceTo(lx0, start + 1)
    IN  IF c \in DOMAIN SingleCharTokens THEN addToken(src, lx, start, SingleCharTokens[c])
        ELSE IF c \in OperatorChars THEN operatorToken(src, lx, start, c)
        ELSE IF c = "/" THEN
            IF peek(src, lx.current) = "/"
            THEN lineComment(src, advanceTo(lx, lx.current + 1), start)
            ELSE IF peek(src, lx.current) = "="
            THEN addToken(src, advanceTo(lx, lx.current + 1), start, "SLASH_EQUAL")
            ELSE addToken(src, lx, start, "SLASH")
        ELSE IF c = "#" THEN foundation(lx)
        ELSE IF c \in {" ", "\r", "\t"} THEN lx
        ELSE IF c = "\n" THEN
            [addToken(src, lx, start, "NEWLINE") EXCEPT !.line = lx.line + 1, !.column = 1]
        ELSE IF c = "\"" THEN string(src, lx, start)
        ELSE IF isDigit(c) THEN number(src, lx, start)
        ELSE IF isAlpha(c) THEN identifier(src, lx, start)
        ELSE lx

NoError == <<>>

RECURSIVE scanAll(_, _)
scanAll(src, lx) ==
    IF lx.error # NoError \/ isAtEndOf(src, lx.current) THEN lx
    ELSE scanAll(src, scanToken(src, [lx EXCEPT !.start = lx.current]))

\* new Lexer(source).tokenize(): the tokens, or the Error thrown
tokenize(src) ==
    LET lx == scanAll(src, [start |-> 0, current |-> 0, line |-> 1, column |-> 1,
                            tokens |-> <<>>, starts |-> <<>>, error |-> NoError])
    IN  IF lx.error # NoError
        THEN [tokens |-> <<>>, starts |-> <<>>, start |-> lx.start, error |-> lx.error]
        ELSE [tokens |-> Append(lx.tokens, Token("EOF", "", Null, lx.line, lx.column)),
              starts |-> Append(lx.starts, lx.current), start |-> lx.current,
              error |-> NoError]

(***************************************************************************)
(* Parser                                                                  *)
(*                                                                         *)
(* The part of the grammar that the token types IDENTIFIER, NUMBER, EQUAL  *)
(* and EQUAL_EQUAL reach.  The precedence levels between assignment() and  *)
(* equality(), and between equality() and primary(), only look for token   *)
(* types that the texts of this model never produce and hand the           *)
(* expression of the next level on unchanged.  current counts the tokens   *)
(* consumed; the token at index current is toks[current + 1].              *)
(***************************************************************************)
\* the constructor's filter
RECURSIVE filterTokens(_)
filterTokens(toks) ==
    IF Len(toks) = 0 THEN <<>>
    ELSE IF toks[1].type \in {"COMMENT", "FOUNDATION", "NEWLINE"}
    THEN filterTokens(Tail(toks))
    ELSE <<toks[1]>> \o filterTokens(Tail(toks))

peekToken(toks, current) == toks[current + 1]
parserAtEnd(toks, current) == peekToken(toks, current).type = "EOF"
check(toks, current, type) ==
    ~parserAtEnd(toks, current) /\ peekToken(toks, current).type = type

Parsed(node, current) == [node |-> node, current |-> current, error |-> NoError]
ParseError(current, error) == [node |-> Null, current |-> current, error |-> error]

primary(toks, current) ==
    LET tok == peekToken(toks, current)
    IN  IF check(toks, current, "NUMBER")
        THEN Parsed([type |-> "NumberLiteral", value |-> tok.literal], current + 1)
        ELSE IF check(toks, current, "IDENTIFIER")
        THEN Parsed([type |-> "Identifier", name |-> tok.lexeme], current + 1)
        ELSE ParseError(current, <<"Unexpected token: ", tok.lexeme, " at line ", tok.line>>)

\* the while loop of equality(): left-associative ==
RECURSIVE equalityRest(_, _)
equalityRest(toks, left) ==
    IF left.error # NoError \/ ~check(toks, left.current, "EQUAL_EQUAL") THEN left
    ELSE LET right == primary(toks, left.current + 1)
         IN  IF right.error # NoError THEN right
             ELSE equalityRest(toks,
                    Parsed([type |-> "BinaryExpression", operator |-> "==",
                            left |-> left.node, right |-> right.node], right.current))

equality(toks, current) == equalityRest(toks, primary(toks, current))

RECURSIVE assignment(_, _)
assignment(toks, current) ==
    LET expr == equality(toks, current)
        value == assignment(toks, expr.current + 1)
    IN  IF expr.error # NoError \/ ~check(toks, expr.current, "EQUAL") THEN expr
        ELSE IF value.error # NoError THEN value
        ELSE IF expr.node.type \in {"Identifier", "MemberExpression", "IndexExpression"}
        THEN Parsed([type |-> "AssignmentExpression", operator |-> "=",
                     left |-> expr.node, right |-> value.node], value.current)
        ELSE ParseError(value.current, <<"Invalid assignment target">>)

expressionStatement(toks, current) ==
    LET expr == assignment(toks, current)
    IN  IF expr.error # NoError THEN expr
        ELSE IF /\ expr.node.type = "AssignmentExpression"
                /\ expr.node.left.type = "Identifier"
                /\ expr.node.operator = "="
        THEN Parsed([type |-> "VariableDeclaration", name |-> expr.node.left.name,
                     init |-> expr.node.right], expr.current)
        ELSE Parsed([type |-> "ExpressionStatement", expression |-> expr.node], expr.current)

RECURSIVE parseFrom(_, _, _)
parseFrom(toks, current, body) ==
    IF parserAtEnd(toks, current) THEN [body |-> body, error |-> NoError]
    ELSE LET stmt == expressionStatement(toks, current)
         IN  IF stmt.error # NoError THEN [body |-> <<>>, error |-> stmt.error]
             ELSE parseFrom(toks, stmt.current, Append(body, stmt.node))

\* new Parser(tokens).parse(): the body of the Program, or the Error thrown
parse(toks) == parseFrom(filterTokens(toks), 0, <<>>)

(***************************************************************************)
(* Interpreter: values, environments, thrown values                        *)
(*                                                                         *)
(* The interpreter is the record of the Interpreter object's fields.  envs *)
(* holds every Environment created, an Environment reference is its index  *)
(* in envs and NoEnv is the null parent.  A name that is null in the       *)
(* source (a positional argument's name, a pattern's enumName) is NoName.  *)
(* Objects compared by identity carry the id they were created with.       *)
(***************************************************************************)
NoEnv == 0
NoName == ""
\* animationFrameId when it is null; the handles of the host start at 1
NoFrame == 0

Native(name) == [t |-> "native", name |-> name]

\* what a throw statement throws; NoThrow is normal completion
NoThrow == [kind |-> "none"]
Error(message) == [kind |-> "Error", message |-> message]
ReturnException(value) == [kind |-> "ReturnException", value |-> value]
BreakException == [kind |-> "BreakException"]

Result(st, value, exception) == [st |-> st, value |-> value, thrown |-> exception]
Ok(st, value) == Result(st, value, NoThrow)
Throw(st, exception) == Result(st, Null, exception)
Threw(r) == r.thrown # NoThrow

\* a Map that keeps insertion order: a sequence of <<key, value>>
mapHas(m, key) == \E i \in 1..Len(m) : m[i][1] = key
mapSet(m, key, value) ==
    IF mapHas(m, key)
    THEN [i \in 1..Len(m) |-> IF m[i][1] = key THEN <<key, value>> ELSE m[i]]
    ELSE Append(m, <<key, value>>)
mapValues(m) == [i \in 1..Len(m) |-> m[i][2]]

\* the spelling of the identifiers of the programs, for tests on characters
Spelling == [Idle |-> <<"I", "d", "l", "e">>, Run |-> <<"R", "u", "n">>,
             Walk |-> <<"W", "a", "l", "k">>, s |-> <<"s">>, a |-> <<"a">>,
             b |-> <<"b">>, x |-> <<"x">>, other |-> <<"o", "t", "h", "e", "r">>]
UpperCaseLetters == {"A", "B", "C", "D", "E", "F", "G", "H", "I", "J", "K", "L", "M",
                     "N", "O", "P", "Q", "R", "S", "T", "U", "V", "W", "X", "Y", "Z"}

\* Environment
newEnvironment(st, parent) ==
    [st EXCEPT !.envs = Append(st.envs, [values |-> <<>>, parent |-> parent])]
lastEnv(st) == Len(st.envs)

envHas(st, env, name) == name \in DOMAIN st.envs[env].values

define(st, env, name, value) ==
    LET old == st.envs[env].values
    IN  [st EXCEPT !.envs[env].values =
            [n \in (DOMAIN old) \cup {name} |-> IF n = name THEN value ELSE old[n]]]

\* the scope in which get() finds the name, walking outward; NoEnv if none
RECURSIVE definingEnv(_, _, _)
definingEnv(st, env, name) ==
    IF envHas(st, env, name) THEN env
    ELSE IF st.envs[env].parent # NoEnv THEN definingEnv(st, st.envs[env].parent, name)
    ELSE NoEnv

\* Environment.get
get(st, env, name) ==
    LET found == definingEnv(st, env, name)
    IN  IF found = NoEnv THEN Throw(st, Error(<<"Undefined variable: ", name>>))
        ELSE Ok(st, st.envs[found].values[name])

RECURSIVE setTarget(_, _, _)

\* a set that writes the scope it is called on, as define does
setCreatesLocally(st, env, name) == env

\* the scope Environment.set writes: own, else the parent's choice, else this one
setTarget(st, env, name) ==
    IF envHas(st, env, name) THEN env
    ELSE IF st.envs[env].parent # NoEnv THEN setTarget(st, st.envs[env].parent, name)
    ELSE env

\* Environment.set; sets records each call for the properties below
set(st, env, name, value) ==
    LET target == setTarget(st, env, name)
        logged == [st EXCEPT !.sets = Append(st.sets,
                      [name |-> name, from |-> env, wrote |-> target,
                       defining |-> definingEnv(st, env, name)])]
    IN  define(logged, target, name, value)

isTruthy(value) ==
    IF value.t = "null" THEN FALSE
    ELSE IF value.t = "boolean" THEN value.b
    ELSE IF value.t = "number" THEN value # Num(0)
    ELSE IF value.t = "string" THEN value.s # ""
    ELSE TRUE

isEnumVariant(value) == value.t = "enum_variant"
isEnumVariantDef(value) == value.t = "enum_variant_def"
isRageFunction(value) == value.t = "function"

\* createEnumVariant: a new object
createEnumVariant(st, enumName, variantName, data) ==
    Ok([st EXCEPT !.nextId = st.nextId + 1],
       [t |-> "enum_variant", id |-> st.nextId, enumName |-> enumName,
        variantName |-> variantName, data |-> data])

\* Number(value), for the values of the programs (no numeric strings)
Number(value) ==
    IF value.t = "number" THEN value
    ELSE IF value.t = "null" THEN Num(0)
    ELSE IF value.t = "boolean" THEN (IF value.b THEN Num(1) ELSE Num(0))
    ELSE IF value.t = "string" /\ value.s = "" THEN Num(0)
    ELSE NaN

\* left === right
strictEquals(left, right) == left = right /\ left # NaN

\* a ?? null
orNull(args, i) ==
    IF i <= Len(args) /\ args[i] # Undefined THEN args[i] ELSE Null

(***************************************************************************)
(* Interpreter: statements and expressions                                 *)
(*                                                                         *)
(* Every operation takes the interpreter and returns a Result: the         *)
(* interpreter after it, the value it returns and what it throws.          *)
(***************************************************************************)
RECURSIVE evaluate(_, _)
RECURSIVE executeStatement(_, _)
RECURSIVE executeStatements(_, _)
RECURSIVE executeIf(_, _)
RECURSIVE executeLoop(_, _)
RECURSIVE evaluateArguments(_, _, _, _)
RECURSIVE matchArms(_, _, _)

\* a statement's completion: nothing is returned
discard(r) == Result(r.st, Null, r.thrown)

\* this.currentEnv = prevEnv, whatever was thrown
restoreEnv(r, prevEnv) == Result([r.st EXCEPT !.currentEnv = prevEnv], r.value, r.thrown)

\* this.currentEnv = new Environment(parent)
enterScope(st, parent) ==
    LET created == newEnvironment(st, parent)
    IN  [created EXCEPT !.currentEnv = lastEnv(created)]

\* this.currentEnv.set(name, value) with the value just evaluated
setTo(name, r) ==
    IF Threw(r) THEN r ELSE Ok(set(r.st, r.st.currentEnv, name, r.value), r.value)

\* for (const stmt of body) this.executeStatement(stmt): after one statement
executeStatementsAfter(body, r) ==
    IF Threw(r) THEN r ELSE executeStatements(Tail(body), r.st)

executeStatements(body, st) ==
    IF Len(body) = 0 THEN Ok(st, Null)
    ELSE executeStatementsAfter(body, executeStatement(body[1], st))

executeBlockStatements(block, st) == executeStatements(block.body, st)

\* try { ... } finally { this.currentEnv = prevEnv }
executeBlock(block, st) ==
    restoreEnv(executeStatements(block.body, enterScope(st, st.currentEnv)), st.currentEnv)

executeFunctionDeclaration(stmt, st) ==
    LET fn == [t |-> "function", id |-> st.nextId, name |-> stmt.name,
               parameters |-> stmt.parameters, body |-> stmt.body,
               closure |-> st.currentEnv]
    IN  Ok(define([st EXCEPT !.nextId = st.nextId + 1], st.currentEnv, stmt.name, fn), Null)

RECURSIVE registerVariants(_, _, _)
registerVariants(stmt, variants, st) ==
    IF Len(variants) = 0 THEN Ok(st, Null)
    ELSE LET variant == variants[1]
             variantDef == [t |-> "enum_variant_def", enumName |-> stmt.name,
                            variantName |-> variant.name, fields |-> variant.fields]
             instance == createEnumVariant(st, stmt.name, variant.name, <<>>)
         IN  IF Len(variant.fields) = 0
             THEN registerVariants(stmt, Tail(variants),
                    define(instance.st, st.currentEnv, variant.name, instance.value))
             ELSE registerVariants(stmt, Tail(variants),
                    define(st, st.currentEnv, variant.name, variantDef))

executeEnumDeclaration(stmt, st) == registerVariants(stmt, stmt.variants, st)

\* throw new ReturnException(value)
throwReturn(r) == IF Threw(r) THEN r ELSE Throw(r.st, ReturnException(r.value))

executeReturn(stmt, st) ==
    IF stmt.argument = Null THEN Throw(st, ReturnException(Null))
    ELSE throwReturn(evaluate(stmt.argument, st))

\* executeIf once the condition is evaluated
executeIfOn(stmt, condition) ==
    IF Threw(condition) THEN condition
    ELSE IF isTruthy(condition.value)
    THEN executeBlockStatements(stmt.consequent, condition.st)
    ELSE IF stmt.alternate # Null
    THEN IF stmt.alternate.type = "IfStatement"
         THEN executeIf(stmt.alternate, condition.st)
         ELSE executeBlockStatements(stmt.alternate, condition.st)
    ELSE Ok(condition.st, Null)

executeIf(stmt, st) == executeIfOn(stmt, evaluate(stmt.condition, st))

\* the catch of executeLoop after one pass over the body
executeLoopAfter(stmt, r) ==
    IF r.thrown = BreakException THEN Ok(r.st, Null)
    ELSE IF Threw(r) THEN r
    ELSE executeLoop(stmt, r.st)

\* while (true) body, left by a BreakException only
executeLoop(stmt, st) == executeLoopAfter(stmt, executeBlockStatements(stmt.body, st))

executeVariableDeclaration(stmt, st) == discard(setTo(stmt.name, evaluate(stmt.init, st)))

executeStatement(stmt, st) ==
    CASE stmt.type = "DrawBlock" -> Ok([st EXCEPT !.drawBlock = stmt], Null)
      [] stmt.type = "UpdateBlock" -> Ok([st EXCEPT !.updateBlock = stmt], Null)
      [] stmt.type = "FunctionDeclaration" -> executeFunctionDeclaration(stmt, st)
      [] stmt.type = "EnumDeclaration" -> executeEnumDeclaration(stmt, st)
      [] stmt.type = "ReturnStatement" -> executeReturn(stmt, st)
      [] stmt.type = "IfStatement" -> executeIf(stmt, st)
      [] stmt.type = "LoopStatement" -> executeLoop(stmt, st)
      [] stmt.type = "BreakStatement" -> Throw(st, BreakException)
      [] stmt.type = "BlockStatement" -> executeBlock(stmt, st)
      [] stmt.type = "ExpressionStatement" -> discard(evaluate(stmt.expression, st))
      [] stmt.type = "VariableDeclaration" -> executeVariableDeclaration(stmt, st)
      [] OTHER -> Ok(st, Null)

\* String(value), for the primitive values
RECURSIVE digitsOf(_)
digitsOf(n) ==
    LET digit == CHOOSE c \in Digits : DigitValue(c) = n % 10
    IN  IF n < 10 THEN digit ELSE digitsOf(n \div 10) \o digit

String(value) ==
    IF value.t = "string" THEN value.s
    ELSE IF value = NaN THEN "NaN"
    ELSE IF value.t = "number" THEN (IF value.n < 0 THEN "-" \o digitsOf(-value.n) ELSE digitsOf(value.n))
    ELSE IF value.t = "boolean" THEN (IF value.b THEN "true" ELSE "false")
    ELSE IF value.t = "undefined" THEN "undefined"
    ELSE "null"

\* the operators that evaluate both operands, on the numbers of the model
\* (integers and NaN)
arithmetic(operator, left, right) ==
    LET l == Number(left)
        r == Number(right)
        nan == l = NaN \/ r = NaN
    IN  CASE operator = "+" -> IF nan THEN NaN ELSE Num(l.n + r.n)
          [] operator = "-" -> IF nan THEN NaN ELSE Num(l.n - r.n)
          [] operator = "*" -> IF nan THEN NaN ELSE Num(l.n * r.n)
          [] operator = "<" -> Bool(~nan /\ l.n < r.n)
          [] operator = "<=" -> Bool(~nan /\ l.n <= r.n)
          [] operator = ">" -> Bool(~nan /\ l.n > r.n)
          [] operator = ">=" -> Bool(~nan /\ l.n >= r.n)

ArithmeticOperators == {"+", "-", "*", "<", "<=", ">", ">="}

\* the left operand with the right one evaluated after it
withRight(expr, left) ==
    IF Threw(left) THEN [left |-> left, right |-> left]
    ELSE [left |-> left, right |-> evaluate(expr.right, left.st)]

\* both operands evaluated, and a boolean returned
logicalOfBoth(expr, operands) ==
    IF Threw(operands.left) THEN operands.left
    ELSE IF Threw(operands.right) THEN operands.right
    ELSE IF expr.operator \in {"and", "&&"}
    THEN Ok(operands.right.st,
            Bool(isTruthy(operands.left.value) /\ isTruthy(operands.right.value)))
    ELSE Ok(operands.right.st,
            Bool(isTruthy(operands.left.value) \/ isTruthy(operands.right.value)))

\* the cases 'and', '&&', 'or', '||' once the left operand is evaluated
evaluateLogicalOn(expr, left) ==
    IF Threw(left) THEN left
    ELSE IF expr.operator \in {"and", "&&"}
    THEN IF ~isTruthy(left.value) THEN left ELSE evaluate(expr.right, left.st)
    ELSE IF isTruthy(left.value) THEN left ELSE evaluate(expr.right, left.st)

\* 'and', '&&', 'or', '||' as operators that evaluate both operands
evaluateLogicalEager(expr, st) ==
    logicalOfBoth(expr, withRight(expr, evaluate(expr.left, st)))

\* the cases 'and', '&&', 'or', '||' of evaluateBinary
evaluateLogical(expr, st) == evaluateLogicalOn(expr, evaluate(expr.left, st))

\* the switch of evaluateBinary once both operands are evaluated
applyBinary(expr, operands) ==
    LET left == operands.left.value
        right == operands.right.value
        after == operands.right.st
    IN  IF Threw(operands.left) THEN operands.left
        ELSE IF Threw(operands.right) THEN operands.right
        ELSE IF expr.operator = "+" /\ (left.t = "string" \/ right.t = "string")
        THEN Ok(after, Str(String(left) \o String(right)))
        ELSE IF expr.operator = "==" THEN Ok(after, Bool(strictEquals(left, right)))
        ELSE IF expr.operator = "!=" THEN Ok(after, Bool(~strictEquals(left, right)))
        ELSE IF expr.operator \in ArithmeticOperators
        THEN Ok(after, arithmetic(expr.operator, left, right))
        ELSE Throw(after, Error(<<"Unknown operator: ", expr.operator>>))

evaluateBinary(expr, st) ==
    IF expr.operator \in {"and", "&&", "or", "||"} THEN evaluateLogical(expr, st)
    ELSE applyBinary(expr, withRight(expr, evaluate(expr.left, st)))

\* the switch of evaluateUnary once the argument is evaluated
applyUnary(expr, r) ==
    LET n == Number(r.value)
    IN  IF Threw(r) THEN r
        ELSE IF expr.operator = "-" THEN Ok(r.st, IF n = NaN THEN NaN ELSE Num(-n.n))
        ELSE IF expr.operator = "!" THEN Ok(r.st, Bool(~isTruthy(r.value)))
        ELSE IF expr.operator = "~"
        THEN Ok(r.st, IF n = NaN THEN Num(-1) ELSE Num(-n.n - 1))
        ELSE Throw(r.st, Error(<<"Unknown unary operator: ", expr.operator>>))

evaluateUnary(expr, st) == applyUnary(expr, evaluate(expr.argument, st))

\* the '=' case, on an Identifier and on an IndexExpression
RECURSIVE assignIndexAfter(_, _)
evaluateAssignment(expr, st) ==
    IF expr.left.type = "IndexExpression"
    THEN assignIndexAfter(expr, evaluate(expr.right, st))
    ELSE setTo(expr.left.name, evaluate(expr.right, st))

(***************************************************************************)
(* Interpreter: calls, native functions, pattern matching                  *)
(***************************************************************************)
\* the native functions of the model, out of createBuiltins
Builtins == {"rect", "clear", "min", "max", "abs", "print"}

\* the entries of BUILTIN_PARAMS for them
BUILTIN_PARAMS == [rect |-> <<"x", "y", "width", "height", "color">>,
                   clear |-> <<"color">>,
                   min |-> <<"a", "b">>,
                   max |-> <<"a", "b">>]

\* params of resolveArgs: a list of names, or null
ParamList(names) == [known |-> TRUE, names |-> names]
NoParams == [known |-> FALSE]

\* params.indexOf(name), from 1; 0 for the source's -1
indexOf(names, name) ==
    LET hits == {i \in 1..Len(names) : names[i] = name}
    IN  IF hits = {} THEN 0 ELSE Min(hits)

\* while (args.length <= idx) args.push(null); args[idx] = value
placeAt(args, idx, value) ==
    [i \in 1..Max({Len(args), idx}) |->
        IF i = idx THEN value ELSE IF i <= Len(args) THEN args[i] ELSE Null]

RECURSIVE fillKeywords(_, _, _)

\* resolveArgs without the test of the name: the value goes to the end
RECURSIVE fillKeywordsUnchecked(_, _, _)
fillKeywordsUnchecked(args, keyword, names) ==
    IF Len(keyword) = 0 THEN [args |-> args, error |-> NoError]
    ELSE LET idx == indexOf(names, keyword[1][1])
         IN  fillKeywordsUnchecked(
                placeAt(args, IF idx = 0 THEN Len(args) + 1 ELSE idx, keyword[1][2]),
                Tail(keyword), names)

\* for (const [name, value] of keyword) of resolveArgs
fillKeywords(args, keyword, names) ==
    IF Len(keyword) = 0 THEN [args |-> args, error |-> NoError]
    ELSE LET idx == indexOf(names, keyword[1][1])
         IN  IF idx = 0
             THEN [args |-> args, error |-> <<"Unknown keyword argument: ", keyword[1][1]>>]
             ELSE fillKeywords(placeAt(args, idx, keyword[1][2]), Tail(keyword), names)

resolveArgs(positional, keyword, params) ==
    IF Len(keyword) = 0 THEN [args |-> positional, error |-> NoError]
    ELSE IF ~params.known
    THEN [args |-> positional \o mapValues(keyword), error |-> NoError]
    ELSE fillKeywords(positional, keyword, params.names)

\* the argument a native function receives at position i
argAt(args, i) == IF i <= Len(args) THEN args[i] ELSE Undefined

\* Math.min, Math.max, Math.abs on Number(...) of the arguments
mathMin(x, y) == IF x = NaN \/ y = NaN THEN NaN ELSE IF x.n <= y.n THEN x ELSE y
mathMax(x, y) == IF x = NaN \/ y = NaN THEN NaN ELSE IF x.n >= y.n THEN x ELSE y
mathAbs(x) == IF x = NaN THEN NaN ELSE IF x.n < 0 THEN Num(-x.n) ELSE x

\* callee(...args): calls records the arguments each native function received
callBuiltin(st, name, args) ==
    LET called == [st EXCEPT !.calls = Append(st.calls, [name |-> name, args |-> args])]
    IN  CASE name = "min" -> Ok(called, mathMin(Number(argAt(args, 1)), Number(argAt(args, 2))))
          [] name = "max" -> Ok(called, mathMax(Number(argAt(args, 1)), Number(argAt(args, 2))))
          [] name = "abs" -> Ok(called, mathAbs(Number(argAt(args, 1))))
          [] OTHER -> Ok(called, Null)

\* the loop of evaluateCall over expr.arguments: after one argument
evaluateArgumentsAfter(arguments, r, positionalArgs, keywordArgs) ==
    IF Threw(r)
    THEN [st |-> r.st, positionalArgs |-> positionalArgs, keywordArgs |-> keywordArgs,
          thrown |-> r.thrown]
    ELSE IF arguments[1].name = NoName
    THEN evaluateArguments(Tail(arguments), r.st, Append(positionalArgs, r.value),
                           keywordArgs)
    ELSE evaluateArguments(Tail(arguments), r.st, positionalArgs,
                           mapSet(keywordArgs, arguments[1].name, r.value))

evaluateArguments(arguments, st, positionalArgs, keywordArgs) ==
    IF Len(arguments) = 0
    THEN [st |-> st, positionalArgs |-> positionalArgs, keywordArgs |-> keywordArgs,
          thrown |-> NoThrow]
    ELSE evaluateArgumentsAfter(arguments, evaluate(arguments[1].value, st),
                                positionalArgs, keywordArgs)

\* "First, bind positional arguments"
RECURSIVE bindPositional(_, _, _, _, _)
bindPositional(st, env, parameters, positionalArgs, i) ==
    IF i > Len(parameters) THEN st
    ELSE bindPositional(define(st, env, parameters[i], orNull(positionalArgs, i)),
                        env, parameters, positionalArgs, i + 1)

\* a binding that takes no notice of the keyword arguments
bindKeywordsIgnored(st, env, fn, keywordArgs) == Ok(st, Null)

\* "Then, override with keyword arguments"
RECURSIVE bindKeywords(_, _, _, _)
bindKeywords(st, env, fn, keywordArgs) ==
    IF Len(keywordArgs) = 0 THEN Ok(st, Null)
    ELSE IF indexOf(fn.parameters, keywordArgs[1][1]) = 0
    THEN Throw(st, Error(<<"Unknown keyword argument: ", keywordArgs[1][1],
                           " for function ", fn.name>>))
    ELSE bindKeywords(define(st, env, keywordArgs[1][1], keywordArgs[1][2]),
                      env, fn, Tail(keywordArgs))

\* the catch of callFunction: only a ReturnException is caught, and
\* currentEnv is put back on a return and on normal completion only
callFunctionAfter(r, prevEnv) ==
    IF r.thrown.kind = "ReturnException"
    THEN Ok([r.st EXCEPT !.currentEnv = prevEnv], r.thrown.value)
    ELSE IF Threw(r) THEN r
    ELSE Ok([r.st EXCEPT !.currentEnv = prevEnv], Null)

\* callFunction once the arguments are bound in fnEnv
callFunctionIn(fn, bound, fnEnv, prevEnv) ==
    IF Threw(bound) THEN bound
    ELSE callFunctionAfter(executeBlock(fn.body, [bound.st EXCEPT !.currentEnv = fnEnv]),
                           prevEnv)

callFunction(fn, positionalArgs, keywordArgs, st) ==
    LET created == newEnvironment(st, fn.closure)
        fnEnv == lastEnv(created)
    IN  callFunctionIn(fn,
            bindKeywords(bindPositional(created, fnEnv, fn.parameters, positionalArgs, 1),
                         fnEnv, fn, keywordArgs),
            fnEnv, st.currentEnv)

\* data.set(fields[i], args[i] ?? null)
RECURSIVE variantData(_, _, _, _)
variantData(fields, args, i, data) ==
    IF i > Len(fields) THEN data
    ELSE variantData(fields, args, i + 1, mapSet(data, fields[i], orNull(args, i)))

callVariantConstructor(variantDef, args, st) ==
    createEnumVariant(st, variantDef.enumName, variantDef.variantName,
                      variantData(variantDef.fields, args, 1, <<>>))

\* evaluateCall once the callee and the arguments are evaluated
dispatchCall(expr, callee, evaluated) ==
    LET builtinName == IF expr.callee.type = "Identifier" THEN expr.callee.name ELSE NoName
        params == IF builtinName \in DOMAIN BUILTIN_PARAMS
                  THEN ParamList(BUILTIN_PARAMS[builtinName]) ELSE NoParams
        builtinArgs == resolveArgs(evaluated.positionalArgs, evaluated.keywordArgs, params)
        variantArgs == resolveArgs(evaluated.positionalArgs, evaluated.keywordArgs,
                                   ParamList(callee.fields))
    IN  IF evaluated.thrown # NoThrow THEN Throw(evaluated.st, evaluated.thrown)
        ELSE IF callee.t = "native"
        THEN IF builtinArgs.error # NoError
             THEN Throw(evaluated.st, Error(builtinArgs.error))
             ELSE callBuiltin(evaluated.st, callee.name, builtinArgs.args)
        ELSE IF isRageFunction(callee)
        THEN callFunction(callee, evaluated.positionalArgs, evaluated.keywordArgs,
                          evaluated.st)
        ELSE IF isEnumVariantDef(callee)
        THEN IF variantArgs.error # NoError
             THEN Throw(evaluated.st, Error(variantArgs.error))
             ELSE callVariantConstructor(callee, variantArgs.args, evaluated.st)
        ELSE Throw(evaluated.st,
                   Error(<<"Can only call functions or enum variant constructors">>))

\* evaluateCall once the callee is evaluated
evaluateCallOn(expr, callee) ==
    IF Threw(callee) THEN callee
    ELSE dispatchCall(expr, callee.value,
                      evaluateArguments(expr.arguments, callee.st, <<>>, <<>>))

evaluateCall(expr, st) == evaluateCallOn(expr, evaluate(expr.callee, st))

\* name[0] === name[0].toUpperCase() && name[0] !== name[0].toLowerCase()
isPascalCase(name) ==
    Len(Spelling[name]) > 0 /\ Spelling[name][1] \in UpperCaseLetters

Matched(bindings) == [matched |-> TRUE, bindings |-> bindings]
NoMatch == [matched |-> FALSE, bindings |-> <<>>]

\* the loop of the VariantPattern case over pattern.bindings
RECURSIVE variantBindings(_, _, _, _)
variantBindings(names, dataEntries, i, bindings) ==
    IF i > Len(names) THEN bindings
    ELSE variantBindings(names, dataEntries, i + 1,
            mapSet(bindings, names[i],
                   IF i <= Len(dataEntries) THEN dataEntries[i][2] ELSE Null))

\* the VariantPattern case without the test of the variant name
matchVariantAnyName(pattern, value) ==
    IF ~isEnumVariant(value) THEN NoMatch
    ELSE IF pattern.enumName # NoName /\ value.enumName # pattern.enumName THEN NoMatch
    ELSE Matched(variantBindings(pattern.bindings, value.data, 1, <<>>))

\* the VariantPattern case of matchPattern
matchVariant(pattern, value) ==
    IF ~isEnumVariant(value) THEN NoMatch
    ELSE IF value.variantName # pattern.variantName THEN NoMatch
    ELSE IF pattern.enumName # NoName /\ value.enumName # pattern.enumName THEN NoMatch
    ELSE Matched(variantBindings(pattern.bindings, value.data, 1, <<>>))

matchPattern(pattern, value) ==
    CASE pattern.type = "WildcardPattern" -> Matched(<<>>)
      [] pattern.type = "LiteralPattern" ->
            IF strictEquals(value, pattern.value) THEN Matched(<<>>) ELSE NoMatch
      [] pattern.type = "IdentifierPattern" ->
            IF isPascalCase(pattern.name)
            THEN IF ~isEnumVariant(value) THEN NoMatch
                 ELSE IF value.variantName # pattern.name THEN NoMatch
                 ELSE Matched(<<>>)
            ELSE Matched(<< <<pattern.name, value>> >>)
      [] pattern.type = "VariantPattern" -> matchVariant(pattern, value)
      [] OTHER -> NoMatch

\* bindings made by assignment: a name bound outside is overwritten there
RECURSIVE setAll(_, _, _)
setAll(st, env, bindings) ==
    IF Len(bindings) = 0 THEN st
    ELSE setAll(set(st, env, bindings[1][1], bindings[1][2]), env, Tail(bindings))

\* for (const [name, value] of bindings) matchEnv.define(name, value)
RECURSIVE defineAll(_, _, _)
defineAll(st, env, bindings) ==
    IF Len(bindings) = 0 THEN st
    ELSE defineAll(define(st, env, bindings[1][1], bindings[1][2]), env, Tail(bindings))

\* matchEnv with the bindings defined in it
seedScope(entered, bindings) == defineAll(entered, entered.currentEnv, bindings)

\* the body of the arm that matched, in matchEnv
armBody(arm, entered) ==
    IF arm.body.type = "BlockStatement"
    THEN discard(executeBlockStatements(arm.body, entered))
    ELSE evaluate(arm.body, entered)

\* a loop over the arms that takes a matching arm only when it is the last
matchArmsOnLast(arms, subject, st, bindings) ==
    IF bindings.matched /\ Len(arms) = 1
    THEN restoreEnv(armBody(arms[1],
                            seedScope(enterScope(st, st.currentEnv), bindings.bindings)),
                    st.currentEnv)
    ELSE matchArms(Tail(arms), subject, st)

\* the loop of evaluateMatch over expr.arms, once the pattern is tried
matchArmsOn(arms, subject, st, bindings) ==
    IF bindings.matched
    THEN restoreEnv(armBody(arms[1],
                            seedScope(enterScope(st, st.currentEnv), bindings.bindings)),
                    st.currentEnv)
    ELSE matchArms(Tail(arms), subject, st)

matchArms(arms, subject, st) ==
    IF Len(arms) = 0
    THEN Throw(st, Error(<<"Non-exhaustive match: no pattern matched">>))
    ELSE matchArmsOn(arms, subject, st, matchPattern(arms[1].pattern, subject))

\* evaluateMatch once the subject is evaluated
evaluateMatchOn(expr, subject) ==
    IF Threw(subject) THEN subject
    ELSE matchArms(expr.arms, subject.value, subject.st)

evaluateMatch(expr, st) == evaluateMatchOn(expr, evaluate(expr.subject, st))

(***************************************************************************)
(* Interpreter: arrays, prototypes, member access                          *)
(***************************************************************************)
\* expr.elements.map(el => this.evaluate(el))
RECURSIVE evaluateElements(_, _, _)
evaluateElementsAfter(elements, r, values) ==
    IF Threw(r) THEN r
    ELSE evaluateElements(Tail(elements), r.st, Append(values, r.value))

evaluateElements(elements, st, values) ==
    IF Len(elements) = 0 THEN Ok(st, values)
    ELSE evaluateElementsAfter(elements, evaluate(elements[1], st), values)

\* the array of the values: a new object
newArray(r) ==
    IF Threw(r) THEN r
    ELSE Ok([r.st EXCEPT !.nextId = r.st.nextId + 1],
            [t |-> "array", id |-> r.st.nextId, elements |-> r.value,
             properties |-> <<>>])

evaluateArrayLiteral(expr, st) == newArray(evaluateElements(expr.elements, st, <<>>))

\* createPrototype(): { __type: 'prototype' }, a new object; fields are the
\* properties set on it
createPrototype(st) ==
    Ok([st EXCEPT !.nextId = st.nextId + 1],
       [t |-> "prototype", id |-> st.nextId, fields |-> <<>>])

isPrototype(value) == value.t = "prototype"

\* for (const prop of expr.properties) obj[prop.key] = this.evaluate(prop.value)
RECURSIVE evaluateProperties(_, _, _)
evaluatePropertiesAfter(properties, r, obj) ==
    IF Threw(r) THEN r
    ELSE evaluateProperties(Tail(properties), r.st,
                            [obj EXCEPT !.fields = mapSet(obj.fields, properties[1].key,
                                                          r.value)])

evaluateProperties(properties, st, obj) ==
    IF Len(properties) = 0 THEN Ok(st, obj)
    ELSE evaluatePropertiesAfter(properties, evaluate(properties[1].value, st), obj)

evaluateObjectLiteral(expr, st) ==
    evaluateProperties(expr.properties, createPrototype(st).st, createPrototype(st).value)

\* the properties every object of the host inherits from Object.prototype
ObjectPrototypeKeys == {"toString", "constructor"}

\* object[property] on a prototype: its own property, else the inherited
\* function of the host, else undefined
propertyOf(object, property) ==
    LET own == {i \in 1..Len(object.fields) : object.fields[i][1] = property}
    IN  IF own # {} THEN object.fields[Max(own)][2]
        ELSE IF property = "__type" THEN Str("prototype")
        ELSE IF property \in ObjectPrototypeKeys THEN Native(property)
        ELSE Undefined

\* value ?? null
nullish(value) == IF value = Undefined \/ value = Null THEN Null ELSE value

\* evaluateMember once the object is evaluated
evaluateMemberOn(expr, object) ==
    IF Threw(object) THEN object
    ELSE IF object.value = Null
    THEN Throw(object.st, Error(<<"Cannot access property on null">>))
    ELSE IF isPrototype(object.value)
    THEN Ok(object.st, nullish(propertyOf(object.value, expr.property.name)))
    ELSE Throw(object.st, Error(<<"Can only access properties on prototypes">>))

evaluateMember(expr, st) == evaluateMemberOn(expr, evaluate(expr.object, st))

(***************************************************************************)
(* Interpreter: indexing.  An array holds its elements, numbered from 0 in *)
(* the source and from 1 here, and the properties set on it under a key    *)
(* that is not an index of the host's arrays, such as "-1".  An array or   *)
(* a prototype is an object: a write to it is seen through every variable  *)
(* that holds it.  The strings of the programs are never indexed.          *)
(***************************************************************************)
\* Number(index) | 0, for the integers of the model
toInt32(value) == IF Number(value) = NaN THEN 0 ELSE Number(value).n

\* object[idx] on an Array: the element, else the property of that name
elementOf(object, idx) ==
    LET own == {i \in 1..Len(object.properties) :
                    object.properties[i][1] = String(Num(idx))}
    IN  IF idx >= 0 /\ idx < Len(object.elements) THEN object.elements[idx + 1]
        ELSE IF own # {} THEN object.properties[Max(own)][2]
        ELSE Undefined

\* if (idx < 0) idx = object.length + idx
fromTheEnd(object, idx) == IF idx < 0 THEN Len(object.elements) + idx ELSE idx

\* object[idx] = value on an Array: an element within the length, a longer
\* array with holes from the length on, a property below 0
storeElement(object, idx, value) ==
    IF idx < 0
    THEN [object EXCEPT !.properties = mapSet(@, String(Num(idx)), value)]
    ELSE IF idx < Len(object.elements)
    THEN [object EXCEPT !.elements[idx + 1] = value]
    ELSE [object EXCEPT !.elements =
            @ \o [hole \in 1..(idx - Len(@)) |-> Undefined] \o <<value>>]

\* the object as every variable that holds it sees it after a write
storeObject(st, object) ==
    [st EXCEPT !.envs = [env \in 1..Len(st.envs) |->
        [st.envs[env] EXCEPT !.values = [name \in DOMAIN @ |->
            IF /\ @[name].t \in {"array", "prototype"}
               /\ @[name].id = object.id
            THEN object
            ELSE @[name]]]]]

\* evaluateIndex once the object and the index are evaluated
evaluateIndexOf(object, index) ==
    IF Threw(index) THEN index
    ELSE IF object.t = "array"
    THEN Ok(index.st,
            nullish(elementOf(object, fromTheEnd(object, toInt32(index.value)))))
    ELSE IF isPrototype(object)
    THEN Ok(index.st, nullish(propertyOf(object, String(index.value))))
    ELSE Throw(index.st, Error(<<"Can only index into arrays, strings, or prototypes">>))

evaluateIndexOn(expr, object) ==
    IF Threw(object) THEN object
    ELSE evaluateIndexOf(object.value, evaluate(expr.index, object.st))

evaluateIndex(expr, st) == evaluateIndexOn(expr, evaluate(expr.object, st))

\* the IndexExpression branch of evaluateAssignment, once the object and the
\* index are evaluated
assignIndexOf(value, object, index) ==
    IF Threw(index) THEN index
    ELSE IF object.t = "array"
    THEN Ok(storeObject(index.st, storeElement(object, toInt32(index.value), value)),
            value)
    ELSE IF isPrototype(object)
    THEN Ok(storeObject(index.st,
                        [object EXCEPT !.fields = mapSet(@, String(index.value), value)]),
            value)
    ELSE Throw(index.st, Error(<<"Can only index-assign to arrays or prototypes">>))

assignIndexOn(expr, value, object) ==
    IF Threw(object) THEN object
    ELSE assignIndexOf(value, object.value, evaluate(expr.left.index, object.st))

\* the IndexExpression branch of evaluateAssignment, after the right side
assignIndexAfter(expr, right) ==
    IF Threw(right) THEN right
    ELSE assignIndexOn(expr, right.value, evaluate(expr.left.object, right.st))

\* the expression types of the programs of this model
evaluate(expr, st) ==
    CASE expr.type = "NumberLiteral" -> Ok(st, expr.value)
      [] expr.type = "StringLiteral" -> Ok(st, Str(expr.value))
      [] expr.type = "BooleanLiteral" -> Ok(st, Bool(expr.value))
      [] expr.type = "NullLiteral" -> Ok(st, Null)
      [] expr.type = "ArrayLiteral" -> evaluateArrayLiteral(expr, st)
      [] expr.type = "ObjectLiteral" -> evaluateObjectLiteral(expr, st)
      [] expr.type = "MatchExpression" -> evaluateMatch(expr, st)
      [] expr.type = "Identifier" -> get(st, st.currentEnv, expr.name)
      [] expr.type = "BinaryExpression" -> evaluateBinary(expr, st)
      [] expr.type = "UnaryExpression" -> evaluateUnary(expr, st)
      [] expr.type = "PrototypeExpression" -> createPrototype(st)
      [] expr.type = "CallExpression" -> evaluateCall(expr, st)
      [] expr.type = "MemberExpression" -> evaluateMember(expr, st)
      [] expr.type = "IndexExpression" -> evaluateIndex(expr, st)
      [] expr.type = "AssignmentExpression" -> evaluateAssignment(expr, st)
      [] OTHER -> Throw(st, Error(<<"Unknown expression type: ", expr.type>>))

\* new InputManager(): the keys held, and the keys pressed and released
\* since the last frame and during it
newInputManager ==
    [keysDown |-> {},
     keysPressedBuffer |-> {},
     keysPressed |-> {},
     keysReleasedBuffer |-> {},
     keysReleased |-> {}]

\* new Interpreter(renderer): the builtins are defined in the global scope
newInterpreter ==
    [envs |-> <<[values |-> [name \in Builtins |-> Native(name)], parent |-> NoEnv]>>,
     globalEnv |-> 1,
     currentEnv |-> 1,
     drawBlock |-> Null,
     updateBlock |-> Null,
     nextId |-> 1,
     animationFrameId |-> NoFrame,
     lastTime |-> 0,
     running |-> FALSE,
     frameCount |-> 0,
     inputManager |-> newInputManager,
     host |-> [requests |-> 0, pending |-> {}, keydowns |-> {}],
     calls |-> <<>>,
     sets |-> <<>>]

\* Interpreter.run(program)
run(body, st) == executeStatements(body, st)

(***************************************************************************)
(* Interpreter: the game loop.  host is the browser's side of it: the      *)
(* number of frames requested so far and the request not yet served.       *)
(* Times are milliseconds; the ticks of the model fall on whole seconds.   *)
(***************************************************************************)
\* a step of the frame written to calls, next to the native calls
logged(st, name) == [st EXCEPT !.calls = Append(st.calls, [name |-> name, args |-> <<>>])]

\* the keydown events the host has dispatched since the last frame: the key,
\* canvasFocused() at that time, and whether the key was in keysDown
dispatched(st, code, shouldCapture) ==
    [st EXCEPT !.host.keydowns =
        @ \cup {[code |-> code,
                 shouldCapture |-> shouldCapture,
                 tracked |-> code \in st.inputManager.keysDown]}]

\* InputManager.onKeyDown, for the keyboard
onKeyDown(st, code, shouldCapture) ==
    [st EXCEPT !.inputManager.keysDown =
                    IF shouldCapture THEN @ \cup {code} ELSE @,
               !.inputManager.keysPressedBuffer =
                    IF code \notin st.inputManager.keysDown /\ shouldCapture
                    THEN @ \cup {code}
                    ELSE @]

\* InputManager.onKeyUp, for the keyboard
onKeyUp(st, code, shouldCapture) ==
    IF code \in st.inputManager.keysDown
    THEN [st EXCEPT !.inputManager.keysDown = @ \ {code},
                    !.inputManager.keysReleasedBuffer =
                        IF shouldCapture THEN @ \cup {code} ELSE @]
    ELSE st

\* an update that hands the buffer over and does not empty it
inputManagerUpdateKeepsBuffer(st) ==
    logged([st EXCEPT !.inputManager.keysPressed = st.inputManager.keysPressedBuffer,
                      !.inputManager.keysReleased = st.inputManager.keysReleasedBuffer,
                      !.inputManager.keysReleasedBuffer = {},
                      !.host.keydowns = {}],
           "inputManager.update")

\* InputManager.update, for the keyboard: the buffers become this frame's keys
inputManagerUpdate(st) ==
    logged([st EXCEPT !.inputManager.keysPressed = st.inputManager.keysPressedBuffer,
                      !.inputManager.keysPressedBuffer = {},
                      !.inputManager.keysReleased = st.inputManager.keysReleasedBuffer,
                      !.inputManager.keysReleasedBuffer = {},
                      !.host.keydowns = {}],
           "inputManager.update")

\* String.prototype.toLowerCase, on the names of the model
toLowerCase(s) ==
    CASE s = "Space" -> "space"
      [] s = "Jump" -> "jump"
      [] OTHER -> s

\* ACTION_KEYS[action], the empty set where it has no entry
ACTION_KEYS(action) ==
    CASE action = "left" -> {"ArrowLeft", "KeyA"}
      [] action = "right" -> {"ArrowRight", "KeyD"}
      [] action = "up" -> {"ArrowUp", "KeyW"}
      [] action = "down" -> {"ArrowDown", "KeyS"}
      [] action = "jump" -> {"Space"}
      [] action = "start" -> {"Escape"}
      [] action = "interact" -> {"KeyE"}
      [] OTHER -> {}

\* InputManager.pressed, with no gamepad connected
pressed(st, action) ==
    \/ toLowerCase(action) \in st.inputManager.keysPressed
    \/ ACTION_KEYS(toLowerCase(action)) \cap st.inputManager.keysPressed # {}

\* this.animationFrameId = requestAnimationFrame(this.gameLoop)
requestAnimationFrame(st) ==
    logged([st EXCEPT !.animationFrameId = st.host.requests + 1,
                      !.host.requests = st.host.requests + 1,
                      !.host.pending = st.host.pending \cup {st.host.requests + 1}],
           "requestAnimationFrame")

\* cancelAnimationFrame(id)
cancelAnimationFrame(st, id) ==
    [st EXCEPT !.host.pending = @ \ {id}]

\* a catch that swallows whatever the block throws
frameBlockSwallows(r, prevEnv) == Ok([r.st EXCEPT !.currentEnv = prevEnv], Null)

\* catch (e) { if (!(e instanceof ReturnException)) throw e; }
\* this.currentEnv = prevEnv;
frameBlockAfter(r, prevEnv) ==
    IF r.thrown.kind = "ReturnException" \/ ~Threw(r)
    THEN Ok([r.st EXCEPT !.currentEnv = prevEnv], Null)
    ELSE r

\* if (this.updateBlock) { ... }
runUpdateBlock(st, dt) ==
    LET created == newEnvironment(st, st.globalEnv)
        updateEnv == lastEnv(created)
        defined == define(created, updateEnv, st.updateBlock.parameter, dt)
    IN  IF st.updateBlock = Null THEN Ok(st, Null)
        ELSE frameBlockAfter(
                executeBlock(st.updateBlock.body, [defined EXCEPT !.currentEnv = updateEnv]),
                st.currentEnv)

\* if (this.drawBlock) { ... }
runDrawBlock(st) ==
    IF st.drawBlock = Null THEN Ok(st, Null)
    ELSE frameBlockAfter(executeBlock(st.drawBlock.body, enterScope(st, st.globalEnv)),
                         st.currentEnv)

\* the frame after the update block
runDrawBlockAfter(r) == IF Threw(r) THEN r ELSE runDrawBlock(r.st)

\* the frame after the draw block
requestAnimationFrameAfter(r) ==
    IF Threw(r) THEN r ELSE Ok(requestAnimationFrame(r.st), Null)

\* a frame that draws before it updates
runUpdateBlockAfter(r, dt) == IF Threw(r) THEN r ELSE runUpdateBlock(r.st, dt)
gameLoopDrawsFirst(st, currentTime) ==
    IF ~st.running THEN Ok(st, Null)
    ELSE requestAnimationFrameAfter(runUpdateBlockAfter(
            runDrawBlock(
                inputManagerUpdate([st EXCEPT !.lastTime = currentTime,
                                              !.frameCount = st.frameCount + 1])),
            Num((currentTime - st.lastTime) \div 1000)))

\* Interpreter.gameLoop, called at currentTime
gameLoop(st, currentTime) ==
    IF ~st.running THEN Ok(st, Null)
    ELSE requestAnimationFrameAfter(runDrawBlockAfter(
            runUpdateBlock(
                inputManagerUpdate([st EXCEPT !.lastTime = currentTime,
                                              !.frameCount = st.frameCount + 1]),
                Num((currentTime - st.lastTime) \div 1000))))

\* a start that does not look at running
startGameLoopAgain(st, now, currentTime) ==
    gameLoop([st EXCEPT !.running = TRUE, !.lastTime = now], currentTime)

\* Interpreter.startGameLoop: the first frame runs inside the call
startGameLoop(st, now, currentTime) ==
    IF st.running THEN Ok(st, Null)
    ELSE gameLoop([st EXCEPT !.running = TRUE, !.lastTime = now], currentTime)

\* Interpreter.stopGameLoop
stopGameLoop(st) ==
    IF st.animationFrameId # NoFrame
    THEN [cancelAnimationFrame(st, st.animationFrameId)
            EXCEPT !.running = FALSE, !.animationFrameId = NoFrame]
    ELSE [st EXCEPT !.running = FALSE]

\* a reset that stops the loop and forgets the blocks, and keeps the scopes
resetKeepsBindings(st) ==
    [stopGameLoop(st) EXCEPT !.drawBlock = Null, !.updateBlock = Null, !.frameCount = 0]

\* Interpreter.reset
reset(st) ==
    LET created == newEnvironment(stopGameLoop(st), NoEnv)
        global == lastEnv(created)
    IN  [created EXCEPT !.globalEnv = global,
                        !.currentEnv = global,
                        !.drawBlock = Null,
                        !.updateBlock = Null,
                        !.frameCount = 0,
                        !.envs[global].values = [name \in Builtins |-> Native(name)]]

(***************************************************************************)
(* Ragelang: run, start, stop and the scene changes.  A call of the async  *)
(* handleSceneChange in flight is an entry of sceneChanges: the path and    *)
(* what it awaits, the fetch or the text of the response.  requested lists *)
(* the paths in the order of the calls, console what console.error got.    *)
(* basePath is "", so resolvePath returns the path.                        *)
(***************************************************************************)
newRagelang ==
    [isRunning |-> FALSE, sceneChanges |-> <<>>, requested |-> <<>>, console |-> <<>>]

\* Ragelang.run(source) after the parser
runParsed(st, parsed) ==
    IF parsed.error # NoError THEN Throw(st, Error(parsed.error)) ELSE run(parsed.body, st)

\* Ragelang.run(source) after the lexer
runLexed(st, lexed) ==
    IF lexed.error # NoError THEN Throw(st, Error(lexed.error))
    ELSE runParsed(st, parse(lexed.tokens))

\* Ragelang.run(source): process, tokenize, parse, interpret
runSource(st, code) ==
    runLexed(st, tokenize(processText(buildGrid(code), findFoundation(buildGrid(code)))))

\* a promise that was rejected
Rejected == [ok |-> FALSE, status |-> "", text |-> <<>>]

\* the sequence without its i-th entry
removeAt(seq, i) == SubSeq(seq, 1, i - 1) \o SubSeq(seq, i + 1, Len(seq))

\* console.error(`Failed to load scene "${path}":`, error)
consoleError(rl, path, error) ==
    [rl EXCEPT !.console = Append(@, [path |-> path, error |-> error])]

\* handleSceneChange(path) up to its first await
handleSceneChange(rl, path) ==
    [rl EXCEPT !.sceneChanges = Append(@, [path |-> path, awaiting |-> "fetch",
                                           response |-> Rejected]),
               !.requested = Append(@, path)]

\* handleSceneChange from the settled fetch to the next await
fetchSettled(rl, i, response) ==
    IF response = Rejected
    THEN consoleError([rl EXCEPT !.sceneChanges = removeAt(@, i)],
                      rl.sceneChanges[i].path, Error(<<"Failed to fetch">>))
    ELSE IF ~response.ok
    THEN consoleError([rl EXCEPT !.sceneChanges = removeAt(@, i)],
                      rl.sceneChanges[i].path,
                      Error(<<"Failed to load scene: ", response.status>>))
    ELSE [rl EXCEPT !.sceneChanges[i] =
                [path |-> @.path, awaiting |-> "text", response |-> response]]

\* this.start() inside the try of handleSceneChange
sceneStarted(rl, path, r) ==
    [ragelang |-> IF Threw(r) THEN consoleError(rl, path, r.thrown) ELSE rl,
     interpreter |-> r.st]

\* this.run(code); this.start(); and the catch around them
sceneRun(rl, path, r, now, currentTime) ==
    IF Threw(r) THEN [ragelang |-> consoleError(rl, path, r.thrown), interpreter |-> r.st]
    ELSE sceneStarted([rl EXCEPT !.isRunning = TRUE], path,
                      startGameLoop(r.st, now, currentTime))

\* handleSceneChange from the settled text: stop, reset, run, start
installScene(rl, st, path, code, now, currentTime) ==
    sceneRun([rl EXCEPT !.isRunning = FALSE], path,
             runSource(reset(stopGameLoop(st)), code), now, currentTime)

\* handleSceneChange once response.text() of the i-th call has settled
textSettled(rl, st, i, now, currentTime) ==
    installScene([rl EXCEPT !.sceneChanges = removeAt(@, i)], st,
                 rl.sceneChanges[i].path, rl.sceneChanges[i].response.text,
                 now, currentTime)

(***************************************************************************)
(* The preprocessor runs: construct, process, then process the output      *)
(***************************************************************************)
\* three-line sources with a character two columns left of the only #, over
\* a third line that catches it on the foundation row:
\*   "        #
\*     #       #
\*   x        x
FallsBesideFoundation ==
    {<<first, "\n", " ", " ", "#", "\n", "x">> : first \in {"\"", "#"}}

Sources == UNION {[1..n -> Alphabet] : n \in 0..MaxLen} \cup FallsBesideFoundation

InitFall ==
    /\ pc = "source"
    /\ source \in Sources
    /\ grid = <<>>
    /\ foundationRow = NoFoundation
    /\ output = <<>>
    /\ prevOutput = <<>>
    /\ unsupported = NoPositions
    /\ round = 1
    /\ tokens = <<>>
    /\ ast = <<>>
    /\ interpreter = newInterpreter
    /\ thrown = NoThrow
    /\ ragelang = newRagelang

\* new FallingProcessor(source)
Construct ==
    /\ pc = "source"
    /\ grid' = buildGrid(source)
    /\ foundationRow' = findFoundation(buildGrid(source))
    /\ pc' = "constructed"
    /\ UNCHANGED <<source, output, prevOutput, round, unsupported, runVars, ragelang>>

\* processor.process()
Process ==
    /\ pc = "constructed"
    /\ grid' = processGrid(grid, foundationRow)
    /\ output' = processText(grid, foundationRow)
    /\ pc' = "processed"
    /\ UNCHANGED <<source, foundationRow, prevOutput, round, unsupported, runVars, ragelang>>

\* the returned text is handed to a second processor
Rerun ==
    /\ pc = "processed"
    /\ round = 1
    /\ source' = output
    /\ prevOutput' = output
    /\ round' = 2
    /\ pc' = "source"
    /\ UNCHANGED <<grid, foundationRow, output, unsupported, runVars, ragelang>>

\* processor.getUnsupportedPositions()
GetUnsupportedPositions ==
    /\ pc \in {"constructed", "processed"}
    /\ grid' = getUnsupportedPositions(grid, foundationRow).grid
    /\ unsupported' = getUnsupportedPositions(grid, foundationRow).unsupported
    /\ UNCHANGED <<pc, source, foundationRow, output, prevOutput, round, runVars, ragelang>>

NextFall == Construct \/ Process \/ Rerun \/ GetUnsupportedPositions

SpecFall == InitFall /\ [][NextFall]_vars

(***************************************************************************)
(* Programs                                                                *)
(*                                                                         *)
(* The nodes of the AST, and the families of programs that the runs below  *)
(* hand to the interpreter.                                                *)
(***************************************************************************)
NumberLiteral(n) == [type |-> "NumberLiteral", value |-> Num(n)]
StringLiteral(s) == [type |-> "StringLiteral", value |-> s]
BooleanLiteral(b) == [type |-> "BooleanLiteral", value |-> b]
NullLiteral == [type |-> "NullLiteral"]
UnaryExpression(operator, argument) ==
    [type |-> "UnaryExpression", operator |-> operator, argument |-> argument]
Identifier(name) == [type |-> "Identifier", name |-> name]
BinaryExpression(operator, left, right) ==
    [type |-> "BinaryExpression", operator |-> operator, left |-> left, right |-> right]
Positional(value) == [name |-> NoName, value |-> value]
Keyword(name, value) == [name |-> name, value |-> value]
CallExpression(callee, arguments) ==
    [type |-> "CallExpression", callee |-> callee, arguments |-> arguments]
MatchArm(pattern, body) == [pattern |-> pattern, body |-> body]
MatchExpression(subject, arms) ==
    [type |-> "MatchExpression", subject |-> subject, arms |-> arms]
WildcardPattern == [type |-> "WildcardPattern"]
LiteralPattern(value) == [type |-> "LiteralPattern", value |-> value]
IdentifierPattern(name) == [type |-> "IdentifierPattern", name |-> name]
VariantPattern(enumName, variantName, bindings) ==
    [type |-> "VariantPattern", enumName |-> enumName, variantName |-> variantName,
     bindings |-> bindings]
VariableDeclaration(name, init) ==
    [type |-> "VariableDeclaration", name |-> name, init |-> init]
ExpressionStatement(expression) ==
    [type |-> "ExpressionStatement", expression |-> expression]
BlockStatement(body) == [type |-> "BlockStatement", body |-> body]
FunctionDeclaration(name, parameters, body) ==
    [type |-> "FunctionDeclaration", name |-> name, parameters |-> parameters,
     body |-> BlockStatement(body)]
ReturnStatement(argument) == [type |-> "ReturnStatement", argument |-> argument]
IfStatement(condition, consequent, alternate) ==
    [type |-> "IfStatement", condition |-> condition,
     consequent |-> BlockStatement(consequent), alternate |-> alternate]
LoopStatement(body) == [type |-> "LoopStatement", body |-> BlockStatement(body)]
BreakStatement == [type |-> "BreakStatement"]
DrawBlock(body) == [type |-> "DrawBlock", body |-> BlockStatement(body)]
UpdateBlock(parameter, body) ==
    [type |-> "UpdateBlock", parameter |-> parameter, body |-> BlockStatement(body)]
ArrayLiteral(elements) == [type |-> "ArrayLiteral", elements |-> elements]
ObjectProperty(key, value) == [key |-> key, value |-> value]
ObjectLiteral(properties) == [type |-> "ObjectLiteral", properties |-> properties]
PrototypeExpression == [type |-> "PrototypeExpression"]
MemberExpression(object, property) ==
    [type |-> "MemberExpression", object |-> object, property |-> Identifier(property)]
IndexExpression(object, index) ==
    [type |-> "IndexExpression", object |-> object, index |-> index]
AssignmentExpression(left, right) ==
    [type |-> "AssignmentExpression", operator |-> "=", left |-> left, right |-> right]
EnumVariantNode(name, fields) == [name |-> name, fields |-> fields]
EnumDeclaration(name, variants) ==
    [type |-> "EnumDeclaration", name |-> name, variants |-> variants]

\* name = name + 1
Increment(name) ==
    VariableDeclaration(name, BinaryExpression("+", Identifier(name), NumberLiteral(1)))
\* ident()
Call(name) == CallExpression(Identifier(name), <<>>)

\* Scopes.  The counter of the specification's closure-sharing example:
\*   count = start; fun inc() { count = count + 1; return count }
\*   fun make() { return inc }; c = make(); a = c(); b = c()
SharedCounter(start) ==
    << VariableDeclaration("count", NumberLiteral(start)),
       FunctionDeclaration("inc", <<>>,
            <<Increment("count"), ReturnStatement(Identifier("count"))>>),
       FunctionDeclaration("make", <<>>, <<ReturnStatement(Identifier("inc"))>>),
       VariableDeclaration("c", Call("make")),
       VariableDeclaration("a", Call("c")),
       VariableDeclaration("b", Call("c")) >>

\* the counter of the test "should handle closures": count is first assigned
\* inside makeCounter
\*   fun makeCounter() { count = start; fun increment() { count = count + 1;
\*   return count }; return increment }; counter = makeCounter();
\*   a = counter(); b = counter()
MadeCounter(start) ==
    << FunctionDeclaration("makeCounter", <<>>,
            << VariableDeclaration("count", NumberLiteral(start)),
               FunctionDeclaration("increment", <<>>,
                    <<Increment("count"), ReturnStatement(Identifier("count"))>>),
               ReturnStatement(Identifier("increment")) >>),
       VariableDeclaration("counter", Call("makeCounter")),
       VariableDeclaration("a", Call("counter")),
       VariableDeclaration("b", Call("counter")) >>

\* a parameter shadows a global; the nested function assigns the parameter
\*   count = 10; fun outer(count) { fun inner() { count = count + 1; return count }
\*   a = inner(); return count }; b = outer(start)
ShadowedCounter(start) ==
    << VariableDeclaration("count", NumberLiteral(10)),
       FunctionDeclaration("outer", <<"count">>,
            << FunctionDeclaration("inner", <<>>,
                    <<Increment("count"), ReturnStatement(Identifier("count"))>>),
               VariableDeclaration("a", Call("inner")),
               ReturnStatement(Identifier("count")) >>),
       VariableDeclaration("b",
            CallExpression(Identifier("outer"), <<Positional(NumberLiteral(start))>>)) >>

ScopePrograms ==
    UNION {{SharedCounter(start), MadeCounter(start), ShadowedCounter(start)} :
              start \in 0..MaxStart}

\* Logical operators.  Each function shifts its digit into trace when called:
\*   trace = 0; fun f() { trace = trace * 10 + 2; return right }
\*   r = left op f()
\* and with the left operand a call as well:
\*   trace = 0; fun g() { trace = trace * 10 + 1; return left }
\*   fun f() { trace = trace * 10 + 2; return right };  r = g() op f()
Literals == {BooleanLiteral(TRUE), BooleanLiteral(FALSE), NullLiteral,
             NumberLiteral(0), NumberLiteral(1), StringLiteral(""), StringLiteral("a")}
LogicalOperators == {"and", "&&", "or", "||"}

Traced(name, digit, result) ==
    FunctionDeclaration(name, <<>>,
        << VariableDeclaration("trace",
              BinaryExpression("+",
                  BinaryExpression("*", Identifier("trace"), NumberLiteral(10)),
                  NumberLiteral(digit))),
           ReturnStatement(result) >>)

LogicalOnLiteral(operator, left, right) ==
    << VariableDeclaration("trace", NumberLiteral(0)),
       Traced("f", 2, right),
       VariableDeclaration("r", BinaryExpression(operator, left, Call("f"))) >>

LogicalOnCalls(operator, left, right) ==
    << VariableDeclaration("trace", NumberLiteral(0)),
       Traced("g", 1, left),
       Traced("f", 2, right),
       VariableDeclaration("r", BinaryExpression(operator, Call("g"), Call("f"))) >>

LogicalPrograms ==
    UNION {{LogicalOnLiteral(operator, left, right), LogicalOnCalls(operator, left, right)} :
              operator \in LogicalOperators, left \in Literals, right \in Literals}

\* Control transfer.  break and return with nothing to unwind to:
\*   x = 1; break          if true { break }        fun f() { break }; f()
\*   return 5              return                   { return 5 }
StrayBreak == <<VariableDeclaration("x", NumberLiteral(1)), BreakStatement>>
StrayBreakInIf == <<IfStatement(BooleanLiteral(TRUE), <<BreakStatement>>, Null)>>
StrayBreakInFunction ==
    << FunctionDeclaration("f", <<>>, <<BreakStatement>>), ExpressionStatement(Call("f")) >>
StrayReturn == <<ReturnStatement(NumberLiteral(5))>>
StrayReturnNothing == <<ReturnStatement(Null)>>
StrayReturnInBlock == <<BlockStatement(<<ReturnStatement(NumberLiteral(5))>>)>>

StrayBreakPrograms == {StrayBreak, StrayBreakInIf, StrayBreakInFunction}
StrayReturnPrograms == {StrayReturn, StrayReturnNothing, StrayReturnInBlock}

\* break with a loop to unwind to, directly and from a called function:
\*   i = 0; loop { i = i + 1; if i >= times { break } }
\*   i = 0; fun stop() { break }; loop { i = i + 1; if i >= times { stop() } }
CountingLoop(times) ==
    << VariableDeclaration("i", NumberLiteral(0)),
       LoopStatement(<< Increment("i"),
                        IfStatement(BinaryExpression(">=", Identifier("i"), NumberLiteral(times)),
                                    <<BreakStatement>>, Null) >>) >>
LoopLeftByCall(times) ==
    << VariableDeclaration("i", NumberLiteral(0)),
       FunctionDeclaration("stop", <<>>, <<BreakStatement>>),
       LoopStatement(<< Increment("i"),
                        IfStatement(BinaryExpression(">=", Identifier("i"), NumberLiteral(times)),
                                    <<ExpressionStatement(Call("stop"))>>, Null) >>) >>

\* other runtime failures:   y = z          1()          match 1 { }
UndefinedVariable == <<VariableDeclaration("y", Identifier("z"))>>
NotCallable == <<ExpressionStatement(CallExpression(NumberLiteral(1), <<>>))>>
NonExhaustive == <<ExpressionStatement(MatchExpression(NumberLiteral(1), <<>>))>>
FailingPrograms == {UndefinedVariable, NotCallable, NonExhaustive}

\* a call in a loop, left in each of the ways a call can be left, and a read
\* of the function's parameter after the loop:
\*   fun leave(p) { }            loop { leave(1); break }    r = p
\*   fun leave(p) { return p }   loop { leave(1); break }    r = p
\*   fun leave(p) { break }      loop { leave(1); break }    r = p
\*   fun leave(p) { y = z }      loop { leave(1); break }    r = p
Ways == {"completes", "returns", "breaks", "fails"}
LeaveBody(way) ==
    CASE way = "completes" -> <<>>
      [] way = "returns" -> <<ReturnStatement(Identifier("p"))>>
      [] way = "breaks" -> <<BreakStatement>>
      [] way = "fails" -> <<VariableDeclaration("y", Identifier("z"))>>
Leaving(way) ==
    << FunctionDeclaration("leave", <<"p">>, LeaveBody(way)),
       LoopStatement(<< ExpressionStatement(
                            CallExpression(Identifier("leave"),
                                           <<Positional(NumberLiteral(1))>>)),
                        BreakStatement >>),
       VariableDeclaration("r", Identifier("p")) >>
LeavingPrograms == {Leaving(way) : way \in Ways}

ControlPrograms ==
    StrayBreakPrograms \cup StrayReturnPrograms \cup FailingPrograms \cup LeavingPrograms
        \cup UNION {{CountingLoop(times), LoopLeftByCall(times)} : times \in 1..(MaxStart + 1)}

\* Calls of native functions with keyword arguments.
\*   r = callee(3, k1 = 7, k2 = 8)
\*   alias = native; r = alias(3, k1 = 7, k2 = 8)
KeywordNames == {"a", "b", "x", "color", "bogus"}
KeywordLists ==
    {<<k>> : k \in KeywordNames}
        \cup {names \in KeywordNames \X KeywordNames : names[1] # names[2]}
PositionalLists == {<<>>, <<NumberLiteral(3)>>}
AliasNames == {"alias", "min"}

RECURSIVE keywordArguments(_, _)
keywordArguments(names, i) ==
    IF i > Len(names) THEN <<>>
    ELSE <<Keyword(names[i], NumberLiteral(6 + i))>> \o keywordArguments(names, i + 1)

positionalArguments(values) == [i \in 1..Len(values) |-> Positional(values[i])]

NativeCall(callee, values, names) ==
    << VariableDeclaration("r",
            CallExpression(Identifier(callee),
                           positionalArguments(values) \o keywordArguments(names, 1))) >>

AliasedCall(alias, native, values, names) ==
    <<VariableDeclaration(alias, Identifier(native))>> \o NativeCall(alias, values, names)

\* a call: the native function, the name it is called by (NoName: its own),
\* the positional values and the keyword names
CallCases ==
    [native : Builtins, alias : {NoName}, values : PositionalLists, names : KeywordLists]
        \cup [native : Builtins, alias : AliasNames, values : PositionalLists,
              names : {<<k>> : k \in KeywordNames}]

CallProgram(case) ==
    IF case.alias = NoName THEN NativeCall(case.native, case.values, case.names)
    ELSE AliasedCall(case.alias, case.native, case.values, case.names)

NativeCallPrograms == {CallProgram(case) : case \in CallCases}

\* Variant patterns.  Two enums share the variant name Run:
\*   enum State { Idle, Run(speed) };  s0 = Idle;  s1 = Run(5)
\*   enum Motion { Run(speed, dir), Walk(speed, dir) };  m1 = Run(1, 2);  m2 = Walk(3, 4)
\*   n = 5
\*   match subject { pattern => { matched = true; outA = a; ... }, _ => { matched = false } }
construct(variant, values) ==
    CallExpression(Identifier(variant), [i \in 1..Len(values) |-> Positional(NumberLiteral(values[i]))])

Declarations ==
    << EnumDeclaration("State", <<EnumVariantNode("Idle", <<>>),
                                  EnumVariantNode("Run", <<"speed">>)>>),
       VariableDeclaration("s0", Identifier("Idle")),
       VariableDeclaration("s1", construct("Run", <<5>>)),
       EnumDeclaration("Motion", <<EnumVariantNode("Run", <<"speed", "dir">>),
                                   EnumVariantNode("Walk", <<"speed", "dir">>)>>),
       VariableDeclaration("m1", construct("Run", <<1, 2>>)),
       VariableDeclaration("m2", construct("Walk", <<3, 4>>)),
       VariableDeclaration("n", NumberLiteral(5)) >>

\* what the declarations bind each subject to
Subjects ==
    [s0 |-> [variant |-> TRUE, enumName |-> "State", variantName |-> "Idle", fields |-> <<>>],
     s1 |-> [variant |-> TRUE, enumName |-> "State", variantName |-> "Run",
             fields |-> <<Num(5)>>],
     m1 |-> [variant |-> TRUE, enumName |-> "Motion", variantName |-> "Run",
             fields |-> <<Num(1), Num(2)>>],
     m2 |-> [variant |-> TRUE, enumName |-> "Motion", variantName |-> "Walk",
             fields |-> <<Num(3), Num(4)>>],
     n |-> [variant |-> FALSE, enumName |-> NoName, variantName |-> NoName, fields |-> <<>>]]

EnumNames == {NoName, "State", "Motion"}
VariantNames == {"Idle", "Run", "Walk"}
BindingLists == {<<>>, <<"a">>, <<"a", "b">>, <<"b", "a">>, <<"a", "b", "x">>}
\* the global each binding is copied to by the arm's body
Out == [a |-> "outA", b |-> "outB", x |-> "outX"]

VariantMatch(subject, pattern) ==
    Declarations \o
    << ExpressionStatement(MatchExpression(Identifier(subject),
          << MatchArm(pattern,
                BlockStatement(
                    <<VariableDeclaration("matched", BooleanLiteral(TRUE))>> \o
                    [i \in 1..Len(pattern.bindings) |->
                        VariableDeclaration(Out[pattern.bindings[i]],
                                            Identifier(pattern.bindings[i]))])),
             MatchArm(WildcardPattern,
                BlockStatement(<<VariableDeclaration("matched", BooleanLiteral(FALSE))>>)) >>)) >>

VariantPatterns ==
    {VariantPattern(enumName, variantName, bindings) :
        enumName \in EnumNames, variantName \in VariantNames, bindings \in BindingLists}

\* the specification's example:
\*   enum State { Idle, Run(speed) }
\*   r = match Run(5) { Idle => 0, Run(s) => s, _ => -1 }
MatchExample ==
    << EnumDeclaration("State", <<EnumVariantNode("Idle", <<>>),
                                  EnumVariantNode("Run", <<"speed">>)>>),
       VariableDeclaration("r",
          MatchExpression(construct("Run", <<5>>),
             << MatchArm(IdentifierPattern("Idle"), NumberLiteral(0)),
                MatchArm(VariantPattern(NoName, "Run", <<"s">>), Identifier("s")),
                MatchArm(WildcardPattern, UnaryExpression("-", NumberLiteral(1))) >>)) >>

MatchPrograms ==
    {VariantMatch(subject, pattern) : subject \in DOMAIN Subjects, pattern \in VariantPatterns}
        \cup {MatchExample}

\* Calls of a user function: count positional arguments 1, 2, ..., and the
\* keyword arguments named, written before or after the positional ones.
\*   a = 100; fun f(a, b, c) { ra = a; rb = b; rc = c; return b }
\*   r = f(1, 2, k1 = 7, k2 = 8)
UserParameters == <<"a", "b", "c">>
UserKeywordNames == {"a", "b", "c", "d"}
UserKeywordLists ==
    {<<>>} \cup {<<k>> : k \in UserKeywordNames}
        \cup {names \in UserKeywordNames \X UserKeywordNames : names[1] # names[2]}

UserCall(count, names, keywordsFirst) ==
    LET positional == [i \in 1..count |-> Positional(NumberLiteral(i))]
        keyword == keywordArguments(names, 1)
    IN  << VariableDeclaration("a", NumberLiteral(100)),
           FunctionDeclaration("f", UserParameters,
                << VariableDeclaration("ra", Identifier("a")),
                   VariableDeclaration("rb", Identifier("b")),
                   VariableDeclaration("rc", Identifier("c")),
                   ReturnStatement(Identifier("b")) >>),
           VariableDeclaration("r",
                CallExpression(Identifier("f"),
                    IF keywordsFirst THEN keyword \o positional
                    ELSE positional \o keyword)) >>

UserCallPrograms ==
    {UserCall(count, names, keywordsFirst) :
        count \in 0..(Len(UserParameters) + 1), names \in UserKeywordLists,
        keywordsFirst \in BOOLEAN}

\* Arms.  Three arms, each with a block that leaves its number in trace and
\* copies what x is inside the arm:
\*   x = 50; trace = 0; v = subject
\*   r = match v { p1 => { trace = trace * 10 + 1; got = x }, p2 => {...}, p3 => {...} }
ArmPatterns ==
    {LiteralPattern(Num(1)), LiteralPattern(Num(2)), IdentifierPattern("x"), WildcardPattern}
ArmSubjects == 1..3

ArmOf(pattern, digit) ==
    MatchArm(pattern,
        BlockStatement(
            << VariableDeclaration("trace",
                  BinaryExpression("+",
                      BinaryExpression("*", Identifier("trace"), NumberLiteral(10)),
                      NumberLiteral(digit))),
               VariableDeclaration("got", Identifier("x")) >>))

ArmsProgram(subject, patterns) ==
    << VariableDeclaration("x", NumberLiteral(50)),
       VariableDeclaration("trace", NumberLiteral(0)),
       VariableDeclaration("v", NumberLiteral(subject)),
       VariableDeclaration("r",
            MatchExpression(Identifier("v"),
                [i \in 1..Len(patterns) |-> ArmOf(patterns[i], i)])) >>

ArmsPrograms ==
    {ArmsProgram(subject, patterns) :
        subject \in ArmSubjects, patterns \in ArmPatterns \X ArmPatterns \X ArmPatterns}

\* Shadowing.  A parameter, a variant pattern and a name pattern bind names
\* that are bound outside:
\*   a = 50; b = 60; enum Pair { P(left, right) }
\*   fun f(a) { la = a; match P(first, 2) { P(a, b) => { ma = a; mb = b } }
\*              after = a; return a }
\*   r = f(start); match first { b => { ib = b } }
Shadowing(start, first) ==
    << VariableDeclaration("a", NumberLiteral(50)),
       VariableDeclaration("b", NumberLiteral(60)),
       EnumDeclaration("Pair", <<EnumVariantNode("P", <<"left", "right">>)>>),
       FunctionDeclaration("f", <<"a">>,
            << VariableDeclaration("la", Identifier("a")),
               ExpressionStatement(MatchExpression(
                    CallExpression(Identifier("P"),
                        <<Positional(NumberLiteral(first)), Positional(NumberLiteral(2))>>),
                    << MatchArm(VariantPattern(NoName, "P", <<"a", "b">>),
                          BlockStatement(<< VariableDeclaration("ma", Identifier("a")),
                                            VariableDeclaration("mb", Identifier("b")) >>)) >>)),
               VariableDeclaration("after", Identifier("a")),
               ReturnStatement(Identifier("a")) >>),
       VariableDeclaration("r",
            CallExpression(Identifier("f"), <<Positional(NumberLiteral(start))>>)),
       ExpressionStatement(MatchExpression(NumberLiteral(first),
            << MatchArm(IdentifierPattern("b"),
                  BlockStatement(<<VariableDeclaration("ib", Identifier("b"))>>)) >>)) >>

ShadowingPrograms ==
    {Shadowing(start, first) : start \in 0..MaxStart, first \in 1..(MaxStart + 1)}

\* Member access.
\*   o = object; r = o.property
\* on arrays of 0 to MaxStart + 1 numbers, on prototypes with the properties
\* in keys set, on strings, numbers and null
ArrayOf(count) == ArrayLiteral([i \in 1..count |-> NumberLiteral(10 * i)])
PropertyNames == {"length", "k", "toString"}
PrototypeOf(keys) ==
    IF keys = <<>> THEN PrototypeExpression
    ELSE ObjectLiteral([i \in 1..Len(keys) |-> ObjectProperty(keys[i], NumberLiteral(i))])
MemberObjects ==
    {ArrayOf(count) : count \in 0..(MaxStart + 1)}
        \cup {PrototypeOf(keys) : keys \in {<<>>, <<"k">>, <<"length">>, <<"length", "k">>}}
        \cup {StringLiteral("ab"), NumberLiteral(5), NullLiteral}

MemberAccess(object, property) ==
    << VariableDeclaration("o", object),
       VariableDeclaration("r", MemberExpression(Identifier("o"), property)) >>

MemberPrograms ==
    {MemberAccess(object, property) : object \in MemberObjects, property \in PropertyNames}

\* Index writes and reads.
\*   a = [10, 20, 30]; b = a; a[i] = 7; r = b[i]; s = b[i + len]
\* on arrays of 1 to MaxStart + 1 numbers, with i from one below -len to len
IndexLiteral(i) ==
    IF i < 0 THEN UnaryExpression("-", NumberLiteral(-i)) ELSE NumberLiteral(i)
IndexWrite(count, i) ==
    << VariableDeclaration("a", ArrayOf(count)),
       VariableDeclaration("b", Identifier("a")),
       ExpressionStatement(
           AssignmentExpression(IndexExpression(Identifier("a"), IndexLiteral(i)),
                                NumberLiteral(7))),
       VariableDeclaration("r", IndexExpression(Identifier("b"), IndexLiteral(i))),
       VariableDeclaration("s", IndexExpression(Identifier("b"), IndexLiteral(i + count))) >>
IndexPrograms ==
    {IndexWrite(count, i) : count \in 1..(MaxStart + 1), i \in (-MaxStart - 2)..(MaxStart + 1)}

Programs ==
    ScopePrograms \cup LogicalPrograms \cup ControlPrograms \cup NativeCallPrograms
        \cup MatchPrograms \cup UserCallPrograms \cup ArmsPrograms \cup ShadowingPrograms
        \cup MemberPrograms \cup IndexPrograms

(***************************************************************************)
(* The pipeline runs: Ragelang.run(source), and Interpreter.run(program)   *)
(***************************************************************************)
\* the lines of the texts:  x = 10   ###   ######   y = x   1 = x   x == 1
Lines == { <<"x", " ", "=", " ", "1", "0">>,
           <<"#", "#", "#">>,
           <<"#", "#", "#", "#", "#", "#">>,
           <<"y", " ", "=", " ", "x">>,
           <<"1", " ", "=", " ", "x">>,
           <<"x", " ", "=", "=", " ", "1">> }

Texts == UNION {{join(lines) : lines \in [1..n -> Lines]} : n \in 1..MaxLines}

InitRun ==
    /\ grid = <<>>
    /\ foundationRow = NoFoundation
    /\ output = <<>>
    /\ prevOutput = <<>>
    /\ unsupported = NoPositions
    /\ round = 1
    /\ tokens = <<>>
    /\ interpreter = newInterpreter
    /\ thrown = NoThrow
    /\ ragelang = newRagelang
    /\ \/ pc = "source" /\ source \in Texts /\ ast = <<>>
       \/ pc = "parsed" /\ source = <<>> /\ ast \in Programs

\* new Lexer(processedSource).tokenize()
Tokenize ==
    /\ pc = "processed"
    /\ LET lexed == tokenize(output)
       IN  IF lexed.error # NoError
           THEN /\ thrown' = Error(lexed.error)
                /\ pc' = "threw"
                /\ UNCHANGED tokens
           ELSE /\ tokens' = lexed.tokens
                /\ pc' = "tokenized"
                /\ UNCHANGED thrown
    /\ UNCHANGED <<fallVars, ragelang, ast, interpreter>>

\* new Parser(tokens).parse()
Parse ==
    /\ pc = "tokenized"
    /\ LET parsed == parse(tokens)
       IN  IF parsed.error # NoError
           THEN /\ thrown' = Error(parsed.error)
                /\ pc' = "threw"
                /\ UNCHANGED ast
           ELSE /\ ast' = parsed.body
                /\ pc' = "parsed"
                /\ UNCHANGED thrown
    /\ UNCHANGED <<fallVars, ragelang, tokens, interpreter>>

\* this.interpreter.run(ast); nothing on the way to the caller catches
Interpret ==
    /\ pc = "parsed"
    /\ LET r == run(ast, interpreter)
       IN  /\ interpreter' = r.st
           /\ thrown' = r.thrown
           /\ pc' = IF Threw(r) THEN "threw" ELSE "ran"
    /\ UNCHANGED <<fallVars, ragelang, tokens, ast>>

NextRun == Construct \/ Process \/ Tokenize \/ Parse \/ Interpret

SpecRun == InitRun /\ [][NextRun]_vars

(***************************************************************************)
(* The lexer runs on its own: new Lexer(text).tokenize()                   *)
(***************************************************************************)
LexAlphabet == {"\"", "\n", "a", " ", "="}
LexTexts == UNION {[1..n -> LexAlphabet] : n \in 0..MaxText}

InitLex ==
    /\ source = <<>>
    /\ grid = <<>>
    /\ foundationRow = NoFoundation
    /\ prevOutput = <<>>
    /\ unsupported = NoPositions
    /\ round = 1
    /\ tokens = <<>>
    /\ ast = <<>>
    /\ interpreter = newInterpreter
    /\ thrown = NoThrow
    /\ ragelang = newRagelang
    /\ pc = "processed"
    /\ output \in LexTexts

NextLex == Tokenize

SpecLex == InitLex /\ [][NextLex]_vars

(***************************************************************************)
(* The game loop runs: Interpreter.run(program), then the host starts the  *)
(* loop, serves the frames it is asked for, presses keys, stops and resets *)
(***************************************************************************)
\* print(value)
PrintOf(value) ==
    ExpressionStatement(CallExpression(Identifier("print"), <<Positional(value)>>))

\* what a frame block does after its print: count, return first, or call a
\* name that is not defined
BlockKinds == {"counts", "returns", "fails"}
BlockBody(kind, shown, counter) ==
    CASE kind = "counts" -> <<PrintOf(Identifier(shown)), Increment(counter)>>
      [] kind = "returns" ->
            <<PrintOf(Identifier(shown)), ReturnStatement(Null), Increment(counter)>>
      [] kind = "fails" ->
            <<PrintOf(Identifier(shown)), ExpressionStatement(Call("missing")),
              Increment(counter)>>

UpdateOf(kind) == UpdateBlock("dt", BlockBody(kind, "dt", "ticks"))
DrawOf(kind) == DrawBlock(BlockBody(kind, "ticks", "drawn"))
Blocks(update, draw) ==
    (IF update = "none" THEN <<>> ELSE <<UpdateOf(update)>>)
        \o (IF draw = "none" THEN <<>> ELSE <<DrawOf(draw)>>)

\*   ticks = start; drawn = 0; [abs = 1;] [update(dt) {...}] [draw {...}]
LoopProgram(start, rebinds, update, draw) ==
    << VariableDeclaration("ticks", NumberLiteral(start)),
       VariableDeclaration("drawn", NumberLiteral(0)) >>
        \o (IF rebinds THEN <<VariableDeclaration("abs", NumberLiteral(1))>> ELSE <<>>)
        \o Blocks(update, draw)

LoopPrograms ==
    {LoopProgram(start, rebinds, update, draw) :
        start \in 0..MaxStart, rebinds \in BOOLEAN,
        update \in BlockKinds \cup {"none"}, draw \in BlockKinds \cup {"none"}}

\* performance.now() at the calls of the host
Ticks == {1000 * seconds : seconds \in 0..MaxTime}
Keys == {"Space"}

InitLoop ==
    /\ grid = <<>>
    /\ foundationRow = NoFoundation
    /\ output = <<>>
    /\ prevOutput = <<>>
    /\ unsupported = NoPositions
    /\ round = 1
    /\ tokens = <<>>
    /\ interpreter = newInterpreter
    /\ thrown = NoThrow
    /\ ragelang = newRagelang
    /\ source = <<>>
    /\ pc = "parsed"
    /\ ast \in LoopPrograms

\* what the host sees of a call into the interpreter
Returned(r) ==
    /\ interpreter' = r.st
    /\ thrown' = IF Threw(r) THEN r.thrown ELSE thrown
    /\ pc' = IF Threw(r) THEN "frame threw"
             ELSE IF pc = "reset" THEN "restarted"
             ELSE pc

\* ragelang.start()
StartGameLoop ==
    /\ pc \in {"ran", "frame threw", "reset", "restarted"}
    /\ interpreter.frameCount < MaxFrames
    /\ \E now \in Ticks : \E currentTime \in Ticks :
          /\ interpreter.lastTime <= now /\ now <= currentTime
          /\ Returned(startGameLoop(interpreter, now, currentTime))
    /\ UNCHANGED <<fallVars, ragelang, tokens, ast>>

\* the host serves the frame it was asked for
GameLoop ==
    /\ pc \in {"ran", "frame threw", "restarted"}
    /\ interpreter.frameCount < MaxFrames
    /\ \E id \in interpreter.host.pending : \E currentTime \in Ticks :
          /\ interpreter.lastTime <= currentTime
          /\ Returned(gameLoop([interpreter EXCEPT !.host.pending = @ \ {id}], currentTime))
    /\ UNCHANGED <<fallVars, ragelang, tokens, ast>>

\* ragelang.stop()
StopGameLoop ==
    /\ pc \in {"ran", "frame threw", "restarted"}
    /\ interpreter' = stopGameLoop(interpreter)
    /\ UNCHANGED <<fallVars, ragelang, tokens, ast, thrown, pc>>

\* a key goes down between two frames
KeyDown ==
    /\ pc \in {"ran", "frame threw", "restarted"}
    /\ \E code \in Keys : \E shouldCapture \in BOOLEAN :
          interpreter' = onKeyDown(interpreter, code, shouldCapture)
    /\ UNCHANGED <<fallVars, ragelang, tokens, ast, thrown, pc>>

\* interpreter.reset()
Reset ==
    /\ pc \in {"ran", "threw", "frame threw"}
    /\ interpreter' = reset(interpreter)
    /\ pc' = "reset"
    /\ UNCHANGED <<fallVars, ragelang, tokens, ast, thrown>>

NextLoop ==
    \/ Interpret
    \/ StartGameLoop
    \/ GameLoop
    \/ StopGameLoop
    \/ KeyDown
    \/ Reset

SpecLoop == InitLoop /\ [][NextLoop]_vars

(***************************************************************************)
(* The scene runs: the page runs and starts a scene, scene changes are     *)
(* requested and their fetches settle in any order, frames are served      *)
(***************************************************************************)
\* the scenes the server holds:
\*   x = 10      x = 1       1 = x       y = x       x = "
\*   ######      #####       #####       #####       #####
Scene(line, width) == join(<<line, [col \in 1..width |-> "#"]>>)
Paths == {"ten", "one", "unparsed", "failing", "unlexed", "missing"}
Served(path) ==
    CASE path = "ten" ->
            [ok |-> TRUE, status |-> "200", text |-> Scene(<<"x", " ", "=", " ", "1", "0">>, 6)]
      [] path = "one" ->
            [ok |-> TRUE, status |-> "200", text |-> Scene(<<"x", " ", "=", " ", "1">>, 5)]
      [] path = "unparsed" ->
            [ok |-> TRUE, status |-> "200", text |-> Scene(<<"1", " ", "=", " ", "x">>, 5)]
      [] path = "failing" ->
            [ok |-> TRUE, status |-> "200", text |-> Scene(<<"y", " ", "=", " ", "x">>, 5)]
      [] path = "unlexed" ->
            [ok |-> TRUE, status |-> "200", text |-> Scene(<<"x", " ", "=", " ", "\"">>, 5)]
      [] path = "missing" -> [ok |-> FALSE, status |-> "404", text |-> <<>>]

InitScene ==
    /\ grid = <<>>
    /\ foundationRow = NoFoundation
    /\ output = <<>>
    /\ prevOutput = <<>>
    /\ unsupported = NoPositions
    /\ round = 1
    /\ tokens = <<>>
    /\ ast = <<>>
    /\ interpreter = newInterpreter
    /\ thrown = NoThrow
    /\ ragelang = newRagelang
    /\ pc = "source"
    /\ source \in {Served(path).text : path \in {"ten", "one"}}

\* ragelang.start() of the page, after run() has returned
Started(r) ==
    /\ interpreter' = r.st
    /\ ragelang' = [ragelang EXCEPT !.isRunning = TRUE]
    /\ thrown' = r.thrown
    /\ pc' = IF Threw(r) THEN "frame threw" ELSE "ran"

\* ragelang.run(code) of the page, and ragelang.start() if it returns
Ran(r, now, currentTime) ==
    IF Threw(r)
    THEN /\ interpreter' = r.st
         /\ thrown' = r.thrown
         /\ pc' = "threw"
         /\ UNCHANGED ragelang
    ELSE Started(startGameLoop(r.st, now, currentTime))

\* the page: ragelang.run(code); ragelang.start()
RunScene ==
    /\ pc = "source"
    /\ \E now \in Ticks : \E currentTime \in Ticks :
          /\ now <= currentTime
          /\ Ran(runSource(interpreter, source), now, currentTime)
    /\ UNCHANGED <<fallVars, tokens, ast>>

\* the running scene calls load_scene(path)
LoadScene ==
    /\ pc = "ran"
    /\ interpreter.running
    /\ Len(ragelang.requested) < MaxLoads
    /\ \E path \in Paths : ragelang' = handleSceneChange(ragelang, path)
    /\ UNCHANGED <<fallVars, tokens, ast, interpreter, thrown, pc>>

\* the fetch of a scene change settles, with the response or rejected
FetchSettles ==
    /\ \E i \in 1..Len(ragelang.sceneChanges) :
          /\ ragelang.sceneChanges[i].awaiting = "fetch"
          /\ \E response \in {Served(ragelang.sceneChanges[i].path), Rejected} :
                ragelang' = fetchSettled(ragelang, i, response)
    /\ UNCHANGED <<fallVars, tokens, ast, interpreter, thrown, pc>>

\* what a scene change leaves of the Ragelang object and the interpreter
Installed(app) ==
    /\ ragelang' = app.ragelang
    /\ interpreter' = app.interpreter

\* the text of a fetched scene settles and the scene is installed
TextSettles ==
    /\ \E i \in 1..Len(ragelang.sceneChanges) :
          /\ ragelang.sceneChanges[i].awaiting = "text"
          /\ \E now \in Ticks : \E currentTime \in Ticks :
                /\ interpreter.lastTime <= now /\ now <= currentTime
                /\ Installed(textSettled(ragelang, interpreter, i, now, currentTime))
    /\ UNCHANGED <<fallVars, tokens, ast, thrown, pc>>

NextScene == RunScene \/ LoadScene \/ FetchSettles \/ TextSettles \/ GameLoop

SpecScene == InitScene /\ [][NextScene]_vars

(***************************************************************************)
(* Properties of the preprocessor                                          *)
(***************************************************************************)
\* the returned text read back as a grid, and the foundation row found in it
OutGrid == buildGrid(output)
OutFoundation == findFoundation(OutGrid)

\* a chain of non-blank cells, each directly or diagonally below the previous
\* one, leads from (row, col) down to a # on the foundation row fr
RECURSIVE Grounded(_, _, _, _)
Grounded(g, fr, row, col) ==
    /\ g[row][col] # Blank
    /\ \/ row = fr /\ g[row][col] = "#"
       \/ /\ row < fr
          /\ \E c \in {col - 1, col, col + 1} :
                c >= 1 /\ c <= Width(g) /\ Grounded(g, fr, row + 1, c)

\* C1: processing the text that process() returned returns that same text:
\* process(process(s)) = process(s)
C1_Idempotent ==
    (pc = "processed" /\ round = 2) => output = prevOutput

\* C2: in the text returned by process(), every non-blank cell above the
\* foundation row is grounded in a # of the foundation row
C2_GroundedAboveFoundation ==
    pc = "processed" =>
        \A row \in 1..(OutFoundation - 1) : \A col \in 1..Width(OutGrid) :
            OutGrid[row][col] # Blank => Grounded(OutGrid, OutFoundation, row, col)

\* C3: in the text returned by process(), every non-blank character on every
\* row, the foundation row and the rows below it included, is grounded
C3_EveryRetainedCharGrounded ==
    pc = "processed" =>
        \A row \in 1..Height(OutGrid) : \A col \in 1..Width(OutGrid) :
            OutGrid[row][col] # Blank => Grounded(OutGrid, OutFoundation, row, col)

\* C4: when process() has returned for a source with a foundation, one more
\* bottom-to-top sweep over the grid moves or removes no character
C4_SweepIsFixedPoint ==
    (pc = "processed" /\ foundationRow # NoFoundation) =>
        sweep(grid, foundationRow).grid = grid

\* process() has returned after at least one character fell
C4_Witness ==
    /\ pc = "processed"
    /\ round = 1
    /\ foundationRow # NoFoundation
    /\ grid # buildGrid(source)

(***************************************************************************)
(* Properties of the pipeline and of the interpreter                       *)
(***************************************************************************)
\* the run has ended, by returning or by throwing
Finished == pc \in {"ran", "threw"}
\* the bindings of the global environment
Globals == interpreter.envs[interpreter.globalEnv].values
GlobalIs(name, value) == name \in DOMAIN Globals /\ Globals[name] = value

TokenTypes(toks) == [i \in 1..Len(toks) |-> toks[i].type]

\* x = 10 over ###, and over ######
TenOverThree == <<"x", " ", "=", " ", "1", "0", "\n", "#", "#", "#">>
TenOverSix == TenOverThree \o <<"#", "#", "#">>

\* what the specification says of a text: process() returns it unchanged, it
\* is one declaration of x over a row of foundation tokens, and the run
\* binds x = 10 in the global environment
RunsAsWritten(text, foundations) ==
    /\ pc # "threw"
    /\ pc \in {"processed", "tokenized", "parsed", "ran"} => output = text
    /\ pc \in {"tokenized", "parsed", "ran"} =>
          /\ TokenTypes(tokens) = <<"IDENTIFIER", "EQUAL", "NUMBER", "NEWLINE">>
                                      \o [i \in 1..foundations |-> "FOUNDATION"] \o <<"EOF">>
          /\ tokens[1].lexeme = "x"
          /\ tokens[3].literal = Num(10)
    /\ pc \in {"parsed", "ran"} => ast = <<VariableDeclaration("x", NumberLiteral(10))>>
    /\ pc = "ran" => GlobalIs("x", Num(10))

\* C5: the text x = 10 over ### is returned unchanged by process(), and the
\* lexer, the parser and the interpreter bind x = 10 in the global environment
C5_ThreeWideFoundationGrounds ==
    source = TenOverThree => RunsAsWritten(TenOverThree, 3)

\* C5, amended: over ### the 1 and the 0 have no cell below them and fall
\* out, process() returns "x =" over ###, and the run ends in the parser's
\* error; over ###### the text is returned unchanged and the run binds x = 10
C5_SixWideFoundationGrounds ==
    /\ source = TenOverThree =>
          /\ pc \notin {"parsed", "ran"}
          /\ pc \in {"processed", "tokenized", "threw"} =>
                output = <<"x", " ", "=", "\n", "#", "#", "#">>
          /\ pc = "threw" =>
                /\ TokenTypes(tokens) = <<"IDENTIFIER", "EQUAL", "NEWLINE", "FOUNDATION",
                                          "FOUNDATION", "FOUNDATION", "EOF">>
                /\ thrown.kind = "Error"
                /\ thrown.message[1] = "Unexpected token: "
    /\ source = TenOverSix => RunsAsWritten(TenOverSix, 6)

\* the run of x = 10 over ### has ended in the error
C5_Witness == source = TenOverThree /\ pc = "threw" /\ thrown.kind = "Error"

\* C6: every Environment.set writes the nearest scope on the chain that
\* already defines the name, and the global scope if none does; so a counter
\* function called twice returns start + 1 and then start + 2, assignments to
\* a shadowing parameter leave the global alone
C6_SetWritesDefiningScopeElseGlobal ==
    /\ \A i \in 1..Len(interpreter.sets) :
          interpreter.sets[i].wrote =
              IF interpreter.sets[i].defining # NoEnv
              THEN interpreter.sets[i].defining
              ELSE interpreter.globalEnv
    /\ \A start \in 0..MaxStart :
          /\ (Finished /\ ast \in {SharedCounter(start), MadeCounter(start)}) =>
                /\ pc = "ran"
                /\ GlobalIs("a", Num(start + 1))
                /\ GlobalIs("b", Num(start + 2))
                /\ GlobalIs("count", Num(start + 2))
          /\ (Finished /\ ast = ShadowedCounter(start)) =>
                /\ pc = "ran"
                /\ GlobalIs("a", Num(start + 1))
                /\ GlobalIs("b", Num(start + 1))
                /\ GlobalIs("count", Num(10))

\* the counter of the specification's example has returned 1 and then 2, by
\* assignments that wrote a scope other than the one they ran in
C6_Witness ==
    /\ pc = "ran"
    /\ ast = SharedCounter(0)
    /\ GlobalIs("a", Num(1))
    /\ GlobalIs("b", Num(2))
    /\ \E i \in 1..Len(interpreter.sets) :
          /\ interpreter.sets[i].name = "count"
          /\ interpreter.sets[i].from # interpreter.sets[i].wrote

\* the value of a literal, and whether the language takes it for true
LiteralValue(literal) ==
    CASE literal.type = "NumberLiteral" -> literal.value
      [] literal.type = "StringLiteral" -> Str(literal.value)
      [] literal.type = "BooleanLiteral" -> Bool(literal.value)
      [] literal.type = "NullLiteral" -> Null
TrueLiterals == {BooleanLiteral(TRUE), NumberLiteral(1), StringLiteral("a")}

\* the left operand decides: a false one decides and/&&, a true one or/||
Decides(operator, left) ==
    IF operator \in {"and", "&&"} THEN left \notin TrueLiterals ELSE left \in TrueLiterals

\* C7: and/&& and or/|| evaluate the left operand first and the right one
\* only when the left one does not decide, and the value of the expression
\* is the value of the deciding operand itself, not a boolean
C7_ShortCircuitKeepsOperand ==
    \A operator \in LogicalOperators : \A left \in Literals : \A right \in Literals :
        /\ (Finished /\ ast = LogicalOnLiteral(operator, left, right)) =>
              /\ pc = "ran"
              /\ GlobalIs("trace", Num(IF Decides(operator, left) THEN 0 ELSE 2))
              /\ GlobalIs("r", LiteralValue(IF Decides(operator, left) THEN left ELSE right))
        /\ (Finished /\ ast = LogicalOnCalls(operator, left, right)) =>
              /\ pc = "ran"
              /\ GlobalIs("trace", Num(IF Decides(operator, left) THEN 1 ELSE 12))
              /\ GlobalIs("r", LiteralValue(IF Decides(operator, left) THEN left ELSE right))

\* null or "a" has run: the right operand was evaluated after the left one
\* and its value, a string, is the result
C7_Witness ==
    /\ pc = "ran"
    /\ ast = LogicalOnCalls("or", NullLiteral, StringLiteral("a"))
    /\ GlobalIs("trace", Num(12))
    /\ GlobalIs("r", Str("a"))

\* C8: a break with no loop to unwind to, and a return at top level, end the
\* run in a runtime error, an Error with a message as every other failure of
\* a run is
C8_StrayControlIsRuntimeError ==
    /\ (Finished /\ ast \in FailingPrograms) =>
          pc = "threw" /\ thrown.kind = "Error"
    /\ (Finished /\ ast \in StrayBreakPrograms \cup StrayReturnPrograms) =>
          pc = "threw" /\ thrown.kind = "Error"

\* the elements of a list of names
Names(list) == {list[i] : i \in 1..Len(list)}
\* the position of a name in a list that holds it
PositionIn(list, name) == CHOOSE p \in 1..Len(list) : list[p] = name
\* the value the programs pass for their i-th keyword, and by position
KeywordValue(i) == Num(6 + i)
PositionalValue == Num(3)

\* the one call of the program received, against the list declared, each
\* keyword's value at the position of its name, and each positional value at
\* its own position unless a keyword names that position
DeliveredByName(case, declared) ==
    /\ pc = "ran"
    /\ Len(interpreter.calls) = 1
    /\ interpreter.calls[1].name = case.native
    /\ \A i \in 1..Len(case.names) :
          /\ PositionIn(declared, case.names[i]) <= Len(interpreter.calls[1].args)
          /\ interpreter.calls[1].args[PositionIn(declared, case.names[i])] = KeywordValue(i)
    /\ \A j \in 1..Len(case.values) :
          declared[j] \notin Names(case.names) => interpreter.calls[1].args[j] = PositionalValue

\* the call was refused: an Error is thrown and the function is not called
RefusedKeyword == pc = "threw" /\ thrown.kind = "Error" /\ interpreter.calls = <<>>

\* the list the engine declares for a native function; none is an empty list
DeclaredFor(native) ==
    IF native \in DOMAIN BUILTIN_PARAMS THEN BUILTIN_PARAMS[native] ELSE <<>>

\* C9: for every native function, a keyword argument whose name is not in
\* the function's declared parameter list is a runtime error, and one with a
\* known name is delivered at the position of the name in that list
C9_EveryNativeChecksKeywords ==
    \A case \in CallCases :
        (Finished /\ ast = CallProgram(case)) =>
            IF Names(case.names) \subseteq Names(DeclaredFor(case.native))
            THEN DeliveredByName(case, DeclaredFor(case.native))
            ELSE RefusedKeyword

\* the name a call is written with
CalleeName(case) == IF case.alias = NoName THEN case.native ELSE case.alias

\* C9, amended: the list is the entry of BUILTIN_PARAMS for the identifier
\* the call is written with.  With an entry, a keyword name outside it is a
\* runtime error and a known name is delivered at its position in it.  With
\* no entry (a native function without one, or one called by another name)
\* no name is checked: the keyword values follow the positional ones in the
\* order written
C9_KeywordsCheckedAgainstCalleeEntry ==
    \A case \in CallCases :
        (Finished /\ ast = CallProgram(case)) =>
            IF CalleeName(case) \in DOMAIN BUILTIN_PARAMS
            THEN IF Names(case.names) \subseteq Names(BUILTIN_PARAMS[CalleeName(case)])
                 THEN DeliveredByName(case, BUILTIN_PARAMS[CalleeName(case)])
                 ELSE RefusedKeyword
            ELSE /\ pc = "ran"
                 /\ Len(interpreter.calls) = 1
                 /\ interpreter.calls[1].name = case.native
                 /\ interpreter.calls[1].args =
                        [j \in 1..Len(case.values) |-> PositionalValue]
                            \o [i \in 1..Len(case.names) |-> KeywordValue(i)]

\* min(b = 7, a = 8) has run: min received 8 first and 7 second
C9_Witness ==
    /\ pc = "ran"
    /\ ast = NativeCall("min", <<>>, <<"b", "a">>)
    /\ interpreter.calls = <<[name |-> "min", args |-> <<Num(8), Num(7)>>]>>
    /\ GlobalIs("r", Num(7))

\* C10: a variant pattern matches a value exactly when the value is an enum
\* variant of the pattern's variant name and, if the pattern names an enum,
\* of that enum; on a match each name of the pattern is bound to the field
\* value at its position, and to null beyond the variant's fields.  The
\* specification's example evaluates to 5
C10_VariantPatternByNameAndPosition ==
    /\ \A subject \in DOMAIN Subjects : \A pattern \in VariantPatterns :
          (Finished /\ ast = VariantMatch(subject, pattern)) =>
              LET value == Subjects[subject]
                  fits == /\ value.variant
                          /\ value.variantName = pattern.variantName
                          /\ pattern.enumName = NoName \/ value.enumName = pattern.enumName
              IN  /\ pc = "ran"
                  /\ GlobalIs("matched", Bool(fits))
                  /\ fits => \A i \in 1..Len(pattern.bindings) :
                                GlobalIs(Out[pattern.bindings[i]],
                                         IF i <= Len(value.fields) THEN value.fields[i]
                                         ELSE Null)
    /\ (Finished /\ ast = MatchExample) => pc = "ran" /\ GlobalIs("r", Num(5))

\* Motion::Run(a, b, x) has matched Run(1, 2) of Motion: a and b are the two
\* fields and x, beyond them, is null
C10_Witness ==
    /\ pc = "ran"
    /\ ast = VariantMatch("m1", VariantPattern("Motion", "Run", <<"a", "b", "x">>))
    /\ GlobalIs("matched", Bool(TRUE))
    /\ GlobalIs("outA", Num(1))
    /\ GlobalIs("outB", Num(2))
    /\ GlobalIs("outX", Null)

(***************************************************************************)
(* Properties of the game loop                                             *)
(***************************************************************************)
\* the kind of the registered blocks, "none" when none is registered
UpdateKind ==
    IF interpreter.updateBlock = Null THEN "none"
    ELSE CHOOSE kind \in BlockKinds : interpreter.updateBlock = UpdateOf(kind)
DrawKind ==
    IF interpreter.drawBlock = Null THEN "none"
    ELSE CHOOSE kind \in BlockKinds : interpreter.drawBlock = DrawOf(kind)

\* the entries of calls written by the last frame
FrameStarts ==
    {i \in 1..Len(interpreter.calls) : interpreter.calls[i].name = "inputManager.update"}
LastFrame ==
    IF FrameStarts = {} THEN <<>>
    ELSE SubSeq(interpreter.calls, Max(FrameStarts), Len(interpreter.calls))
CallNames(calls) == [i \in 1..Len(calls) |-> calls[i].name]

StartOfTicks == ast[1].init.value

\* C11: a runtime error in the update or the draw block of a frame reaches
\* the host as that error; the statements after the failing one have not
\* run, the draw block has not run after a failed update, and no further
\* frame has been requested.
C11_FrameErrorAbortsFrame ==
    /\ interpreter.frameCount >= 1 /\ "fails" \in {UpdateKind, DrawKind} =>
          /\ pc = "frame threw"
          /\ thrown = Error(<<"Undefined variable: ", "missing">>)
          /\ interpreter.host.pending = {}
          /\ GlobalIs("drawn", Num(0))
    /\ interpreter.frameCount >= 1 /\ UpdateKind = "fails" =>
          /\ GlobalIs("ticks", StartOfTicks)
          /\ CallNames(LastFrame) = <<"inputManager.update", "print">>
    /\ interpreter.frameCount >= 1 /\ UpdateKind # "fails" /\ DrawKind = "fails" =>
          CallNames(LastFrame) =
              <<"inputManager.update">>
                  \o (IF UpdateKind = "none" THEN <<>> ELSE <<"print">>) \o <<"print">>

C11_Witness ==
    /\ pc = "frame threw"
    /\ UpdateKind = "fails"
    /\ DrawKind = "counts"
    /\ interpreter.frameCount = 2
    /\ thrown.kind = "Error"

\* what a frame appends to calls
NewCalls ==
    SubSeq(interpreter'.calls, Len(interpreter.calls) + 1, Len(interpreter'.calls))
PrintCall(value) == [name |-> "print", args |-> <<value>>]
Step(name) == [name |-> name, args |-> <<>>]

\* the seconds between the frame before and this one; the first frame is
\* timed from the start of the loop
ElapsedSeconds ==
    IF interpreter.running
    THEN {Num(seconds) : seconds \in
            {n \in 0..MaxTime : 1000 * n = interpreter'.lastTime - interpreter.lastTime}}
    ELSE {Num(seconds) : seconds \in 0..MaxTime}

\* ticks once the update block is over
TicksAfterUpdate ==
    IF UpdateKind = "counts" THEN Num(Globals.ticks.n + 1) ELSE Globals.ticks

\* C12: a frame advances the input manager, then runs the update block with
\* the elapsed seconds, then the draw block, which sees what the update has
\* done, and then requests the next frame; a step that fails ends the frame.
C12_FrameStepsInOrder ==
    [][interpreter'.frameCount = interpreter.frameCount + 1 =>
        /\ interpreter'.inputManager.keysPressed = interpreter.inputManager.keysPressedBuffer
        /\ interpreter'.inputManager.keysPressedBuffer = {}
        /\ \E dt \in ElapsedSeconds :
              NewCalls =
                <<Step("inputManager.update")>>
                  \o (IF UpdateKind = "none" THEN <<>> ELSE <<PrintCall(dt)>>)
                  \o (IF DrawKind = "none" \/ UpdateKind = "fails" THEN <<>>
                      ELSE <<PrintCall(TicksAfterUpdate)>>)
                  \o (IF "fails" \in {UpdateKind, DrawKind} THEN <<>>
                      ELSE <<Step("requestAnimationFrame")>>)
        /\ interpreter'.host.pending # {} <=> "fails" \notin {UpdateKind, DrawKind}
    ]_vars

C12_Witness ==
    /\ interpreter.frameCount = 2
    /\ UpdateKind = "counts"
    /\ DrawKind = "counts"
    /\ interpreter.host.pending = {2}
    /\ interpreter.inputManager.keysPressed = {"Space"}
    /\ interpreter.lastTime = 2000
    /\ GlobalIs("drawn", Num(2))

\* the names a program of the loop binds at top level
ProgramNames == {"ticks", "drawn"}
Rebinds == Len(ast) >= 3 /\ ast[3].type = "VariableDeclaration"

\* C13: after reset() the loop is stopped and no frame is pending, no block
\* is registered, the frame counter is 0, the current scope is a global
\* scope in which the program's names are undefined and every builtin is
\* bound to its native function again.
C13_ResetRebuildsState ==
    pc = "reset" =>
        /\ ~interpreter.running
        /\ interpreter.animationFrameId = NoFrame
        /\ interpreter.host.pending = {}
        /\ interpreter.drawBlock = Null
        /\ interpreter.updateBlock = Null
        /\ interpreter.frameCount = 0
        /\ interpreter.currentEnv = interpreter.globalEnv
        /\ \A name \in ProgramNames :
              get(interpreter, interpreter.currentEnv, name).thrown
                  = Error(<<"Undefined variable: ", name>>)
        /\ \A name \in Builtins :
              get(interpreter, interpreter.currentEnv, name)
                  = Ok(interpreter, Native(name))

C13_Witness ==
    /\ pc = "reset"
    /\ Rebinds
    /\ Len(interpreter.calls) > 0
    /\ thrown # NoThrow
    /\ Len(interpreter.envs) > 2

(***************************************************************************)
(* Properties of calls and of match                                        *)
(***************************************************************************)
\* the arguments written in the call of f, by kind, in the order written
IsKeywordArgument(argument) == argument.name # NoName
IsPositionalArgument(argument) == argument.name = NoName
WrittenArguments == ast[3].init.arguments
WrittenKeywords == SelectSeq(WrittenArguments, IsKeywordArgument)
WrittenPositionals == SelectSeq(WrittenArguments, IsPositionalArgument)
KeywordsDeclared ==
    \A i \in 1..Len(WrittenKeywords) : indexOf(UserParameters, WrittenKeywords[i].name) # 0

\* what the parameter at position i holds by the rule: the keyword argument
\* of its name, else the positional argument at its position, else null
BoundByRule(i) ==
    LET named == {j \in 1..Len(WrittenKeywords) :
                    WrittenKeywords[j].name = UserParameters[i]}
    IN  IF named # {} THEN LiteralValue(WrittenKeywords[Max(named)].value)
        ELSE IF i <= Len(WrittenPositionals) THEN LiteralValue(WrittenPositionals[i].value)
        ELSE Null

\* C14: in a call of f(a, b, c) whose keyword names are all parameters, each
\* parameter holds its keyword argument if there is one, else the positional
\* argument at its position, else null; a fourth positional argument changes
\* nothing.
C14_PositionalThenKeywordBinding ==
    Finished /\ ast \in UserCallPrograms /\ KeywordsDeclared =>
        /\ pc = "ran"
        /\ GlobalIs("ra", BoundByRule(1))
        /\ GlobalIs("rb", BoundByRule(2))
        /\ GlobalIs("rc", BoundByRule(3))
        /\ GlobalIs("r", BoundByRule(2))

\*   r = f(1, 2, 3, 4, a = 7)   gives a = 7, b = 2, c = 3
C14_Witness ==
    /\ pc = "ran"
    /\ ast = UserCall(4, <<"a">>, FALSE)
    /\ GlobalIs("ra", Num(7))
    /\ GlobalIs("rb", Num(2))
    /\ GlobalIs("rc", Num(3))

\* the arms written in a program of three arms, and its subject
WrittenArms == ast[4].init.arms
ArmSubject == ast[3].init.value
\* a pattern of these programs fits the subject: a literal the equal value,
\* a lower-case name and the wildcard every value
Fits(pattern) ==
    pattern.type \in {"WildcardPattern", "IdentifierPattern"}
        \/ (pattern.type = "LiteralPattern" /\ pattern.value = ArmSubject)
FittingArms == {i \in 1..Len(WrittenArms) : Fits(WrittenArms[i].pattern)}

\* C15: of the arms of a match, only the body of the first arm whose pattern
\* fits the subject runs, once, in a scope where the names the pattern binds
\* hold the subject and every other name reads as outside; with no fitting
\* arm no body runs and the match is an error.
C15_FirstMatchingArmOnly ==
    Finished /\ ast \in ArmsPrograms =>
        IF FittingArms = {}
        THEN /\ pc = "threw"
             /\ thrown = Error(<<"Non-exhaustive match: no pattern matched">>)
             /\ GlobalIs("trace", Num(0))
        ELSE /\ pc = "ran"
             /\ GlobalIs("trace", Num(Min(FittingArms)))
             /\ GlobalIs("got", IF WrittenArms[Min(FittingArms)].pattern.type
                                        = "IdentifierPattern"
                                  THEN ArmSubject ELSE Num(50))
             /\ GlobalIs("r", Null)

\*   match 2 { 1 => ..., x => ..., _ => ... }   runs the second arm only
C15_Witness ==
    /\ pc = "ran"
    /\ ast = ArmsProgram(2, <<LiteralPattern(Num(1)), IdentifierPattern("x"), WildcardPattern>>)
    /\ GlobalIs("trace", Num(2))
    /\ GlobalIs("got", Num(2))

\* C16: a parameter, the names of a variant pattern and the name of a name
\* pattern are bound in the scope of the call or of the arm: inside, the name
\* reads as bound there; the binding of the same name in the function around
\* an arm, and the global one, hold their earlier value afterwards.
C16_BindingsAreFreshLocals ==
    /\ pc = "ran" /\ ast \in ShadowingPrograms =>
          /\ GlobalIs("la", ast[5].init.arguments[1].value.value)
          /\ GlobalIs("ma", ast[6].expression.subject.value)
          /\ GlobalIs("mb", Num(2))
          /\ GlobalIs("after", ast[5].init.arguments[1].value.value)
          /\ GlobalIs("r", ast[5].init.arguments[1].value.value)
          /\ GlobalIs("ib", ast[6].expression.subject.value)
          /\ GlobalIs("a", Num(50))
          /\ GlobalIs("b", Num(60))
    /\ Finished /\ ast \in ShadowingPrograms => pc = "ran"
    /\ Finished /\ ast \in UserCallPrograms => GlobalIs("a", Num(100))
    /\ Finished /\ ast \in ArmsPrograms => GlobalIs("x", Num(50))

C16_Witness ==
    /\ pc = "ran"
    /\ ast = Shadowing(0, 3)
    /\ GlobalIs("la", Num(0))
    /\ GlobalIs("ma", Num(3))
    /\ GlobalIs("after", Num(0))
    /\ GlobalIs("ib", Num(3))
    /\ GlobalIs("a", Num(50))

(***************************************************************************)
(* Properties of the lexer                                                 *)
(***************************************************************************)
\* the line of the character at offset start: 1 plus the newlines before it
LineAt(text, start) == 1 + Cardinality({k \in 1..start : text[k] = "\n"})
Lexed == tokenize(output)

\* C17: the error for a string without its closing quote names the line of
\* the opening quote.
C17_UnterminatedStringReportsStartLine ==
    pc = "threw" =>
        thrown = Error(<<"Unterminated string at line ", LineAt(output, Lexed.start)>>)

\* C18: every token carries the line of its first character.
C18_TokenLineIsLineOfFirstChar ==
    pc = "tokenized" =>
        \A i \in 1..Len(tokens) : tokens[i].line = LineAt(output, Lexed.starts[i])

(***************************************************************************)
(* Properties of member access                                             *)
(***************************************************************************)
\* the object and the property written in  o = object; r = o.property
WrittenObject == ast[1].init
WrittenProperty == ast[2].init.property.name
\* the keys an object literal sets, and the value it sets a key to
KeysSet ==
    IF WrittenObject.type = "ObjectLiteral"
    THEN {WrittenObject.properties[i].key : i \in 1..Len(WrittenObject.properties)}
    ELSE {}
ValueSet(key) ==
    LiteralValue((CHOOSE property \in
        {WrittenObject.properties[i] : i \in 1..Len(WrittenObject.properties)} :
            property.key = key).value)

\* C19: o.property on a prototype is the value the key was set to, null for
\* a key that was not set; on an array o.length is the number of elements;
\* every other member access is an error.
C19_MemberOnPrototypeAndArrayLength ==
    Finished /\ ast \in MemberPrograms =>
        IF WrittenObject.type \in {"ObjectLiteral", "PrototypeExpression"}
        THEN /\ pc = "ran"
             /\ GlobalIs("r", IF WrittenProperty \in KeysSet THEN ValueSet(WrittenProperty)
                               ELSE Null)
        ELSE IF WrittenObject.type = "ArrayLiteral" /\ WrittenProperty = "length"
        THEN /\ pc = "ran"
             /\ GlobalIs("r", Num(Len(WrittenObject.elements)))
        ELSE /\ pc = "threw"
             /\ thrown.kind = "Error"

(***************************************************************************)
(* Properties of falling                                                   *)
(***************************************************************************)
\* the grid of the text the processor was constructed with
Original == buildGrid(source)
\* the rows of the non-blank cells of a column, and the i-th of them from the top
Filled(g, col) == {row \in 1..Height(g) : g[row][col] # Blank}
Nth(rows, i) == CHOOSE row \in rows : Cardinality({r \in rows : r <= row}) = i
Column(g, col) == [row \in 1..Height(g) |-> g[row][col]]

\* a column after the character of row has fallen: it rests on the row above
\* the nearest non-blank cell below it, or is gone when there is none
Fallen(g, row, col) ==
    LET below == {r \in (row + 1)..Height(g) : g[r][col] # Blank}
    IN  [r \in 1..Height(g) |->
            IF below # {} /\ r = Min(below) - 1 THEN g[row][col]
            ELSE IF r = row THEN Blank
            ELSE g[r][col]]

\* C20: when a line falls, every character of it that process() finds
\* unsupported moves within its column to the row above the nearest
\* non-blank cell below it, or leaves the grid when there is none, and no
\* other cell changes; so process() as a whole only moves characters down
\* their columns without passing one another and removes them from the bottom;
\* without a foundation every character falls out.
C20_FallsStraightDown ==
    /\ grid # <<>> /\ foundationRow # NoFoundation =>
          \A row \in 1..(foundationRow - 1) : \A col \in 1..Width(grid) :
              Column(fallRow(grid, foundationRow, row).grid, col) =
                  IF col \in toFallCols(grid, foundationRow, row)
                  THEN Fallen(grid, row, col)
                  ELSE Column(grid, col)
    /\ pc = "processed" /\ foundationRow # NoFoundation =>
          /\ Height(grid) = Height(Original)
          /\ Width(grid) = Width(Original)
          /\ \A col \in 1..Width(grid) :
                /\ Cardinality(Filled(grid, col)) <= Cardinality(Filled(Original, col))
                /\ \A i \in 1..Cardinality(Filled(grid, col)) :
                      /\ grid[Nth(Filled(grid, col), i)][col]
                            = Original[Nth(Filled(Original, col), i)][col]
                      /\ Nth(Filled(grid, col), i) >= Nth(Filled(Original, col), i)
    /\ pc = "processed" /\ foundationRow = NoFoundation => output = <<>>

\* a character has come down two rows and rests on the non-blank cell below
C20_Witness ==
    /\ pc = "processed"
    /\ foundationRow # NoFoundation
    /\ \E col \in 1..Width(grid) : \E row \in 1..(Height(grid) - 3) :
          /\ Original[row][col] # Blank
          /\ Filled(grid, col) = {row + 2, row + 3}
          /\ grid[row + 2][col] = Original[row][col]
          /\ Filled(Original, col) = {row, row + 3}

(***************************************************************************)
(* Properties of the support check                                         *)
(***************************************************************************)
\* the grid is the one of a constructed processor
Built == pc \in {"constructed", "processed"}

C22_QueryLeavesGrid ==
    [][(pc' = pc /\ unsupported' # unsupported) => getGrid(grid') = getGrid(grid)]_vars

\* the query has returned the unsupported characters of a freshly built grid
\* whose characters would fall in process(), and the grid is still as built
C22_Witness ==
    /\ pc = "constructed"
    /\ unsupported # NoPositions
    /\ unsupported # {}
    /\ foundationRow # NoFoundation
    /\ processGrid(grid, foundationRow) # grid
    /\ getGrid(grid) = buildGrid(source)

(***************************************************************************)
(* Properties of the scope after a call                                    *)
(***************************************************************************)
\* the way the function of a Leaving program is left
WayOf(program) == CHOOSE way \in Ways : Leaving(way) = program

\* C23: when control has left a user function call, by completion, by a
\* return, by a break that ends a loop of the caller or by a runtime error,
\* the current scope is the caller's again (here the global scope), so a
\* read of the function's parameter after the caller's loop finds nothing
C23_CallRestoresCallerScope ==
    Finished =>
        /\ interpreter.currentEnv = interpreter.globalEnv
        /\ (ast \in LeavingPrograms /\ WayOf(ast) # "fails") =>
                thrown = Error(<<"Undefined variable: ", "p">>)

(***************************************************************************)
(* Properties of the foundation row                                        *)
(***************************************************************************)
\* the columns of the # characters of a row that findFoundation() accepts
FoundationCells(g, row) ==
    {col \in 1..Width(g) : g[row][col] = "#" /\ ~inStringAt(g, row, col)}

\* C24: the foundation row found in the text that process() returns is the
\* row found in the input, and it has the same # cells
C24_FoundationRowKept ==
    pc = "processed" =>
        /\ OutFoundation = foundationRow
        /\ foundationRow # NoFoundation =>
                FoundationCells(OutGrid, foundationRow)
                    = FoundationCells(buildGrid(source), foundationRow)

(***************************************************************************)
(* Properties of the scheduling of frames                                  *)
(***************************************************************************)
\* the host holds a request for a next frame
FramePending == interpreter.host.pending # {}

\* C25: between frames the loop is marked running exactly when a next frame
\* is pending; after a frame that ended with a runtime error either a frame
\* is pending or startGameLoop() gets one requested
C25_RunningIffFramePending ==
    /\ interpreter.running <=> FramePending
    /\ (pc = "frame threw" /\ ~FramePending) =>
            \A now \in Ticks :
                interpreter.lastTime <= now =>
                    startGameLoop(interpreter, now, now).st.host.pending # {}

(***************************************************************************)
(* Properties of the scene changes                                         *)
(***************************************************************************)
\* the scenes that load and run, and what each binds to x
GoodPaths == {"ten", "one"}
BoundBy(path) == IF path = "ten" THEN Num(10) ELSE Num(1)
LastRequested == ragelang.requested[Len(ragelang.requested)]

\* no scene change is in flight and none has failed
SceneChangesDone ==
    /\ ragelang.requested # <<>>
    /\ ragelang.sceneChanges = <<>>
    /\ ragelang.console = <<>>

\* C26: when every requested scene change has completed, the scene that is
\* installed and running is the one requested last, in whatever order the
\* fetches of overlapping requests completed
C26_LastRequestedSceneWins ==
    SceneChangesDone =>
        /\ GlobalIs("x", BoundBy(LastRequested))
        /\ interpreter.running
        /\ FramePending

\* C27: a scene change that fails, at the fetch or at the processing,
\* lexing, parsing or top-level run of the new scene, leaves the scene that
\* was running as it was: the interpreter and the running flag are unchanged
C27_FailedSceneChangeKeepsScene ==
    [][Len(ragelang'.console) > Len(ragelang.console) =>
            /\ interpreter' = interpreter
            /\ ragelang'.isRunning = ragelang.isRunning]_vars

(***************************************************************************)
(* Properties of indexing                                                  *)
(***************************************************************************)
\* the array and the index of an IndexWrite program
WrittenLength == Len(ast[1].init.elements)
WrittenIndex ==
    CHOOSE i \in (-MaxStart - 2)..(MaxStart + 1) : ast = IndexWrite(WrittenLength, i)

\* C28: after arr[i] = v with -len <= i < 0 on an array of length len, the
\* reads arr[i] and arr[len + i] both yield v, and the array has length len
C28_NegativeIndexWriteIsRead ==
    (Finished /\ ast \in IndexPrograms /\ WrittenIndex < 0 /\ WrittenIndex >= -WrittenLength) =>
        /\ pc = "ran"
        /\ GlobalIs("r", Num(7))
        /\ GlobalIs("s", Num(7))
        /\ Len(Globals["a"].elements) = WrittenLength

\* C29: whatever the order of start(), stop(), reset() and the frames, the
\* host holds at most one request for a next frame, the one the interpreter
\* remembers, so each frame served runs the callbacks once; startGameLoop()
\* on a running loop changes nothing
C29_AtMostOneFramePending ==
    /\ Cardinality(interpreter.host.pending) <= 1
    /\ interpreter.host.pending \subseteq {interpreter.animationFrameId}
    /\ interpreter.running =>
            \A now \in Ticks : \A currentTime \in Ticks :
                startGameLoop(interpreter, now, currentTime) = Ok(interpreter, Null)

\* the loop runs again after a reset: the earlier requests were served or
\* cancelled, and the one pending is the latest
C29_Witness ==
    /\ pc = "restarted"
    /\ interpreter.running
    /\ interpreter.frameCount = 2
    /\ interpreter.host.requests >= 4
    /\ interpreter.host.pending = {interpreter.animationFrameId}

(***************************************************************************)
(* Key presses, frame by frame: the host dispatches keydown and keyup      *)
(* events between the frames of a running program, and what it dispatched  *)
(* since the last frame is kept next to the input manager                  *)
(***************************************************************************)
\*   ticks = 0; drawn = 0; [update(dt) {...}]
KeyPrograms == {LoopProgram(0, FALSE, update, "none") : update \in {"none", "counts", "fails"}}

InitKeys ==
    /\ grid = <<>>
    /\ foundationRow = NoFoundation
    /\ output = <<>>
    /\ prevOutput = <<>>
    /\ unsupported = NoPositions
    /\ round = 1
    /\ tokens = <<>>
    /\ interpreter = newInterpreter
    /\ thrown = NoThrow
    /\ ragelang = newRagelang
    /\ source = <<>>
    /\ pc = "parsed"
    /\ ast \in KeyPrograms

\* a keydown event reaches the input manager
KeyDownEvent ==
    /\ pc \in {"ran", "frame threw"}
    /\ \E code \in Keys : \E shouldCapture \in BOOLEAN :
          interpreter' = onKeyDown(dispatched(interpreter, code, shouldCapture),
                                   code, shouldCapture)
    /\ UNCHANGED <<fallVars, ragelang, tokens, ast, thrown, pc>>

\* a keyup event reaches the input manager
KeyUpEvent ==
    /\ pc \in {"ran", "frame threw"}
    /\ \E code \in Keys : \E shouldCapture \in BOOLEAN :
          interpreter' = onKeyUp(interpreter, code, shouldCapture)
    /\ UNCHANGED <<fallVars, ragelang, tokens, ast, thrown, pc>>

NextKeys ==
    \/ Interpret
    \/ StartGameLoop
    \/ GameLoop
    \/ StopGameLoop
    \/ KeyDownEvent
    \/ KeyUpEvent

SpecKeys == InitKeys /\ [][NextKeys]_vars

\* a step in which a frame runs
FrameRuns == interpreter'.frameCount = interpreter.frameCount + 1

\* the action that ACTION_KEYS binds to the key
ActionOf(code) == CHOOSE action \in {"jump"} : code \in ACTION_KEYS(action)

\* the keys of the keydown events of since the last frame that found the
\* canvas focused and the key not held
FreshKeyDowns ==
    {e.code : e \in {d \in interpreter.host.keydowns : d.shouldCapture /\ ~d.tracked}}

\* C30, for the keydown events that find the canvas focused and the key not
\* already held: a key is reported as pressed during a frame exactly when
\* such an event for it arrived since the frame before, so that a press is
\* reported in the next frame and in no later one, and again only after the
\* key went up and down once more.
C30_FreshKeyDownPressedNextFrameOnly ==
    [][FrameRuns =>
            \A code \in Keys :
                pressed(interpreter', ActionOf(code)) <=> code \in FreshKeyDowns]_vars

\* a second frame reports the key again: it went up and down since the first
C30_Witness ==
    /\ interpreter.frameCount = 2
    /\ pressed(interpreter, "jump")
    /\ "Space" \in interpreter.inputManager.keysReleased
    /\ "Space" \in interpreter.inputManager.keysDown
    /\ interpreter.inputManager.keysPressedBuffer = {}

\* C30 as it is written, for every keydown event: a key is reported as
\* pressed during a frame exactly when a keydown event for it arrived since
\* the frame before.
C30_KeyDownPressedNextFrameOnly ==
    [][FrameRuns =>
            \A code \in Keys :
                pressed(interpreter', ActionOf(code))
                    <=> code \in {e.code : e \in interpreter.host.keydowns}]_vars

====
